---- MODULE Spec2Model ----
(***************************************************************************)
(* Game-state engine of the point-and-click adventure: the GameStateManager *)
(* store (flags, counters, inventory, room states, persistence), the        *)
(* Hotspot action resolution (findAction / getAvailableVerbs /              *)
(* executeAction), the HotspotManager (hover tracking, interact) and the    *)
(* ResponseGenerator.  Closures supplied by scenes (onExecute, enabled) are *)
(* represented as data interpreted against the store.                       *)
(***************************************************************************)
EXTENDS Naturals, Sequences, FiniteSets, TLC

VARIABLES
  flags,              \* GameStateManager.flags : Map<string, boolean>
  counters,           \* GameStateManager.counters : Map<string, number>
  inventory,          \* GameStateManager.inventory : InventoryItem[]
  roomStates,         \* GameStateManager.roomStates : Map<string, RoomState>
  currentRoom,        \* GameStateManager.currentRoom : string
  onInventoryChange,  \* number of registered inventory-change callbacks
  onFlagChange,       \* number of registered flag-change callbacks
  localStorage,       \* slot -> serialized save blob, or NoData
  actions,            \* Hotspot.actions : HotspotAction[]
  call,               \* the last public call: [op, args]
  ret,                \* what that call returned
  pre,                \* the store as it was when that call started
  observed,           \* what each callback invocation of that call saw
  executed,           \* indexes of the actions whose onExecute that call ran
  snapshot,           \* slot -> the store's data when save last wrote the slot
  hoveredHotspot,     \* HotspotManager.hoveredHotspot : hotspot id or Null
  hotspotEnabled,     \* hotspot id -> Hotspot.isEnabled
  onHotspotHover,     \* number of registered hover callbacks
  onHotspotClick,     \* number of registered click callbacks
  pc,                 \* where the interact call in progress stands
  frame,              \* the locals of that interact call
  log,                \* what that interact call has done so far, in order
  enabled,            \* ResponseGeneratorClass.enabled
  cache,              \* ResponseGeneratorClass.cache : Map<string, string>
  calls,              \* the interact calls in flight when several may be
  selectedItemId,     \* InventoryPanel.selectedItemId
  slots,              \* InventoryPanel.slots: the itemId datum of each slot
  messageBox,         \* the MessageBox: its fields, and in time the scene clock's pending events
  hotspots,           \* HotspotManager.hotspots : Map<string, Hotspot>
  children            \* the Hotspot objects alive in the scene

\* The scene's user interface and what the scene-level models add.
uiVars == <<selectedItemId, slots, messageBox, hotspots, children>>
sceneVars == <<calls, uiVars>>

\* The HotspotManager, its interact call and the response generator.
worldVars == <<hoveredHotspot, hotspotEnabled, onHotspotHover, onHotspotClick,
               pc, frame, log, enabled, cache, sceneVars>>

vars == <<flags, counters, inventory, roomStates, currentRoom,
          onInventoryChange, onFlagChange, localStorage, actions,
          call, ret, pre, observed, executed, snapshot, worldVars>>

storeVars == <<flags, counters, inventory, roomStates, currentRoom,
               onInventoryChange, onFlagChange>>

-----------------------------------------------------------------------------
(* Bounds of the model *)

MaxCallbacks == 2
MaxActions == 2

-----------------------------------------------------------------------------
(* Values *)

\* JavaScript's undefined (an absent optional field or argument).
Undefined == "undefined"

ItemIds == {"a", "b", "c"}

\* InventoryItem: id, name and combinableWith decide every operation of the
\* store; description and icon are carried along unread and are left out.
\* An absent combinableWith behaves as the empty list (?.includes is falsy).
InventoryItem(id, name, cw) == [id |-> id, name |-> name, combinableWith |-> cw]

\* The items the store is driven with: "a" combines with "b", "b" with itself,
\* and id "c" comes as two different items.
Items ==
  { InventoryItem("a", "A", {"b"}),
    InventoryItem("b", "B", {"b"}),
    InventoryItem("c", "C", {}),
    InventoryItem("c", "R", {}) }

\* The result items combineItems is called with: one whose id may be free or
\* held by another item, and one whose id is that of an input.
CombineResults ==
  { InventoryItem("c", "R", {}),
    InventoryItem("b", "B", {"b"}) }

FlagNames == {"f"}
Slots == {"autosave"}
\* localStorage.getItem of a key never written: null.
NoData == [present |-> FALSE]

EmptyMap == << >>

\* The GameStateManager instance ("this") as one value.
Store == [flags |-> flags, counters |-> counters, inventory |-> inventory,
          roomStates |-> roomStates, currentRoom |-> currentRoom,
          onInventoryChange |-> onInventoryChange, onFlagChange |-> onFlagChange]

\* The instance right after construction.
EmptyStore == [flags |-> EmptyMap, counters |-> EmptyMap, inventory |-> << >>,
               roomStates |-> EmptyMap, currentRoom |-> "",
               onInventoryChange |-> 0, onFlagChange |-> 0]

SetStore(S) ==
  /\ flags' = S.flags
  /\ counters' = S.counters
  /\ inventory' = S.inventory
  /\ roomStates' = S.roomStates
  /\ currentRoom' = S.currentRoom
  /\ onInventoryChange' = S.onInventoryChange
  /\ onFlagChange' = S.onFlagChange

Range(s) == { s[i] : i \in 1..Len(s) }

\* Array.prototype.findIndex / find over the indexes that pass the test:
\* the least of them, 0 when there is none.
FirstIndex(passing) ==
  IF passing = {} THEN 0
  ELSE CHOOSE i \in passing : \A j \in passing : i <= j

\* Array.prototype.splice(index, 1)
Splice(s, index) == SubSeq(s, 1, index - 1) \o SubSeq(s, index + 1, Len(s))

-----------------------------------------------------------------------------
(* GameStateManager: pure operations on a store value.  Each returns        *)
(* [store, ret, seen]: the store after the call, the returned value and the *)
(* inventory snapshots seen by the callbacks it invoked, in call order.     *)

\* The callbacks are invoked last-registered first.
NotifyInventoryReversed(S) ==
  [k \in 1..S.onInventoryChange |->
     [kind |-> "inventory", cb |-> S.onInventoryChange + 1 - k,
      inventory |-> S.inventory, flags |-> S.flags,
      name |-> Undefined, value |-> Undefined]]

\* this.onInventoryChange.forEach(cb => cb()): callback k observes the store.
NotifyInventory(S) ==
  [k \in 1..S.onInventoryChange |->
     [kind |-> "inventory", cb |-> k, inventory |-> S.inventory,
      flags |-> S.flags, name |-> Undefined, value |-> Undefined]]

\* this.onFlagChange.forEach(cb => cb(name, value))
NotifyFlag(S, name, value) ==
  [k \in 1..S.onFlagChange |->
     [kind |-> "flag", cb |-> k, inventory |-> S.inventory,
      flags |-> S.flags, name |-> name, value |-> value]]

getFlag(S, name) == IF name \in DOMAIN S.flags THEN S.flags[name] ELSE FALSE

setFlag(S, name, value) ==
  LET S1 == [S EXCEPT !.flags =
               [k \in (DOMAIN S.flags) \cup {name} |->
                  IF k = name THEN value ELSE S.flags[k]]]
  IN  [store |-> S1, ret |-> Undefined, seen |-> NotifyFlag(S1, name, value)]

\* Map.prototype.set
MapSet(map, key, value) ==
  [k \in (DOMAIN map) \cup {key} |-> IF k = key THEN value ELSE map[k]]

setCounter(S, name, value) ==
  [store |-> [S EXCEPT !.counters = MapSet(S.counters, name, value)],
   ret |-> Undefined, seen |-> << >>]

getCounter(S, name) == IF name \in DOMAIN S.counters THEN S.counters[name] ELSE 0

\* RoomState.  characterPositions starts as {} and no method of the store
\* writes it; it is left out.
RoomState(hasVisited, objectStates) ==
  [hasVisited |-> hasVisited, objectStates |-> objectStates]

\* GameStateManager.getRoomState: creates the room's state on first access.
getRoomState(S, roomId) ==
  LET S1 == IF roomId \in DOMAIN S.roomStates THEN S
            ELSE [S EXCEPT !.roomStates =
                    MapSet(S.roomStates, roomId, RoomState(FALSE, EmptyMap))]
  IN  [store |-> S1, ret |-> S1.roomStates[roomId], seen |-> << >>]

\* The room becomes current without being marked visited.
setCurrentRoomNoMark(S, roomId) ==
  LET r == getRoomState([S EXCEPT !.currentRoom = roomId], roomId)
  IN  [store |-> r.store, ret |-> Undefined, seen |-> << >>]

setCurrentRoom(S, roomId) ==
  LET r == getRoomState([S EXCEPT !.currentRoom = roomId], roomId)
      state == [r.ret EXCEPT !.hasVisited = TRUE]
  IN  [store |-> [r.store EXCEPT !.roomStates = MapSet(@, roomId, state)],
       ret |-> Undefined, seen |-> << >>]

setRoomObjectState(S, roomId, objectId, state) ==
  LET r == getRoomState(S, roomId)
      roomState == [r.ret EXCEPT !.objectStates = MapSet(@, objectId, state)]
  IN  [store |-> [r.store EXCEPT !.roomStates = MapSet(@, roomId, roomState)],
       ret |-> Undefined, seen |-> << >>]

hasVisitedRoom(S, roomId) ==
  LET r == getRoomState(S, roomId)
  IN  [store |-> r.store, ret |-> r.ret.hasVisited, seen |-> << >>]

hasItem(S, itemId) == \E i \in 1..Len(S.inventory) : S.inventory[i].id = itemId

getItemIndex(S, itemId) ==
  FirstIndex({ i \in 1..Len(S.inventory) : S.inventory[i].id = itemId })

addItemNoCheck(S, item) ==
  LET S1 == [S EXCEPT !.inventory = Append(S.inventory, item)]
  IN  [store |-> S1, ret |-> TRUE, seen |-> NotifyInventory(S1)]

addItem(S, item) ==
  IF hasItem(S, item.id)
  THEN [store |-> S, ret |-> FALSE, seen |-> << >>]
  ELSE LET S1 == [S EXCEPT !.inventory = Append(S.inventory, item)]
       IN  [store |-> S1, ret |-> TRUE, seen |-> NotifyInventory(S1)]

removeItem(S, itemId) ==
  LET index == getItemIndex(S, itemId)
  IN  IF index = 0
      THEN [store |-> S, ret |-> FALSE, seen |-> << >>]
      ELSE LET S1 == [S EXCEPT !.inventory = Splice(S.inventory, index)]
           IN  [store |-> S1, ret |-> TRUE, seen |-> NotifyInventory(S1)]

combineItems(S, itemId1, itemId2, resultItem) ==
  LET i1 == getItemIndex(S, itemId1)
      i2 == getItemIndex(S, itemId2)
  IN  IF i1 = 0 \/ i2 = 0
      THEN [store |-> S, ret |-> FALSE, seen |-> << >>]
      ELSE LET item1 == S.inventory[i1]
               item2 == S.inventory[i2]
               canCombine == \/ itemId2 \in item1.combinableWith
                             \/ itemId1 \in item2.combinableWith
           IN  IF ~canCombine
               THEN [store |-> S, ret |-> FALSE, seen |-> << >>]
               ELSE LET r1 == removeItem(S, itemId1)
                        r2 == removeItem(r1.store, itemId2)
                        r3 == addItem(r2.store, resultItem)
                    IN  [store |-> r3.store, ret |-> TRUE,
                         seen |-> r1.seen \o r2.seen \o r3.seen]

\* this.onInventoryChange.push(callback)
onInventoryChanged(S) ==
  [store |-> [S EXCEPT !.onInventoryChange = @ + 1],
   ret |-> Undefined, seen |-> << >>]

\* this.onFlagChange.push(callback)
onFlagChanged(S) ==
  [store |-> [S EXCEPT !.onFlagChange = @ + 1],
   ret |-> Undefined, seen |-> << >>]

\* The text stored under a slot key.  present: the key exists; json: whether
\* the text parses to an object ("object"), to null ("null") or not at all
\* ("invalid"); absent: the fields the object lacks; numeric: the fields that
\* hold a number instead of an object.  The value of a field named in absent
\* or numeric is not read.
SaveText(json, absent, numeric, data) ==
  [present |-> TRUE, json |-> json, absent |-> absent, numeric |-> numeric,
   flags |-> data.flags, counters |-> data.counters, inventory |-> data.inventory,
   roomStates |-> data.roomStates, currentRoom |-> data.currentRoom]

\* The persisted part of the store.
Data(S) ==
  [flags |-> S.flags, counters |-> S.counters, inventory |-> S.inventory,
   roomStates |-> S.roomStates, currentRoom |-> S.currentRoom]

\* The room states are left out of the saved object.
SerializeNoRooms(S) ==
  SaveText("object", {}, {}, [Data(S) EXCEPT !.roomStates = EmptyMap])

\* JSON.stringify(saveData): the Maps become plain objects (Object.fromEntries),
\* the inventory array is copied by value.  The timestamp field is written but
\* never read back and is left out of the blob.
Serialize(S) == SaveText("object", {}, {}, Data(S))

\* new Map(Object.entries(saveData[field])): the entries of an object; a
\* number has no own enumerable properties and gives the empty Map.
Entries(blob, field) ==
  IF field \in blob.numeric THEN EmptyMap
  ELSE CASE field = "flags" -> blob.flags
         [] field = "counters" -> blob.counters
         [] field = "roomStates" -> blob.roomStates

\* What load assigns from the parsed object, field by field.
Deserialize(blob) ==
  [flags |-> Entries(blob, "flags"), counters |-> Entries(blob, "counters"),
   inventory |-> blob.inventory,
   roomStates |-> Entries(blob, "roomStates"), currentRoom |-> blob.currentRoom]

loadAppend(S, data) ==
  IF ~data.present \/ data.json # "object" \/ data.absent # {}
  THEN [store |-> S, ret |-> FALSE, seen |-> << >>]
  ELSE LET D == Deserialize(data)
           S1 == [S EXCEPT !.flags = D.flags, !.counters = D.counters,
                           !.inventory = S.inventory \o D.inventory,
                           !.roomStates = D.roomStates,
                           !.currentRoom = D.currentRoom]
       IN  [store |-> S1, ret |-> TRUE, seen |-> NotifyInventory(S1)]

\* GameStateManager.load.  `if (!data) return false` answers a missing key.
\* Inside the try, JSON.parse throws on invalid text, `saveData.flags` throws
\* on null, and Object.entries throws on an absent (undefined) field; the
\* catch returns false and keeps the assignments made before the throw.
load(S, data) ==
  IF ~data.present
  THEN [store |-> S, ret |-> FALSE, seen |-> << >>]
  ELSE IF data.json # "object" \/ "flags" \in data.absent
  THEN [store |-> S, ret |-> FALSE, seen |-> << >>]
  ELSE LET D == Deserialize(data)
           S1 == [S EXCEPT !.flags = D.flags]
           S2 == [S1 EXCEPT !.counters = D.counters, !.inventory = D.inventory]
           S3 == [S2 EXCEPT !.roomStates = D.roomStates,
                            !.currentRoom = D.currentRoom]
       IN  IF "counters" \in data.absent
           THEN [store |-> S1, ret |-> FALSE, seen |-> << >>]
           ELSE IF "roomStates" \in data.absent
           THEN [store |-> S2, ret |-> FALSE, seen |-> << >>]
           ELSE [store |-> S3, ret |-> TRUE, seen |-> NotifyInventory(S3)]

reset(S) ==
  LET S1 == [S EXCEPT !.flags = EmptyMap, !.counters = EmptyMap,
                      !.inventory = << >>, !.roomStates = EmptyMap,
                      !.currentRoom = ""]
  IN  [store |-> S1, ret |-> Undefined, seen |-> NotifyInventory(S1)]

-----------------------------------------------------------------------------
(* GameStateManager: the public calls as actions *)

\* Record a call of the store and its outcome.
StoreCall(op, args, r) ==
  /\ SetStore(r.store)
  /\ call' = [op |-> op, args |-> args]
  /\ ret' = r.ret
  /\ pre' = Store
  /\ observed' = r.seen
  /\ executed' = << >>

AddItem(item) ==
  /\ StoreCall("addItem", <<item>>, addItem(Store, item))
  /\ UNCHANGED <<localStorage, actions, snapshot, worldVars>>

RemoveItem(itemId) ==
  /\ StoreCall("removeItem", <<itemId>>, removeItem(Store, itemId))
  /\ UNCHANGED <<localStorage, actions, snapshot, worldVars>>

CombineItems(itemId1, itemId2, resultItem) ==
  /\ StoreCall("combineItems", <<itemId1, itemId2, resultItem>>,
               combineItems(Store, itemId1, itemId2, resultItem))
  /\ UNCHANGED <<localStorage, actions, snapshot, worldVars>>

OnInventoryChanged ==
  /\ onInventoryChange < MaxCallbacks
  /\ StoreCall("onInventoryChanged", << >>, onInventoryChanged(Store))
  /\ UNCHANGED <<localStorage, actions, snapshot, worldVars>>

Save(slot) ==
  /\ localStorage' = [localStorage EXCEPT ![slot] = Serialize(Store)]
  /\ snapshot' = [snapshot EXCEPT ![slot] = [taken |-> TRUE, data |-> Data(Store)]]
  /\ call' = [op |-> "save", args |-> <<slot>>]
  /\ ret' = Undefined
  /\ pre' = Store
  /\ observed' = << >>
  /\ executed' = << >>
  /\ UNCHANGED <<storeVars, actions, worldVars>>

Load(slot) ==
  /\ StoreCall("load", <<slot>>, load(Store, localStorage[slot]))
  /\ UNCHANGED <<localStorage, actions, snapshot, worldVars>>

Reset ==
  /\ StoreCall("reset", << >>, reset(Store))
  /\ UNCHANGED <<localStorage, actions, snapshot, worldVars>>

InitStore ==
  /\ flags = EmptyMap
  /\ counters = EmptyMap
  /\ inventory = << >>
  /\ roomStates = EmptyMap
  /\ currentRoom = ""
  /\ onInventoryChange = 0
  /\ onFlagChange = 0
  /\ localStorage = [s \in Slots |-> NoData]

\* No slot has been saved to.
NoSnapshot == [taken |-> FALSE, data |-> Data(EmptyStore)]

\* JavaScript's null.
Null == "null"

HotspotIds == {"vines", "other"}

\* No interact call is in progress.
NoFrame == [verb |-> Undefined, heldItemId |-> Undefined, hotspot |-> Null,
            wasEnabled |-> FALSE, baseResponse |-> Undefined,
            enabled |-> FALSE, cacheKey |-> Undefined]

\* The MessageBox as constructed: hidden, no timer.
HiddenBox == [visible |-> FALSE, isTyping |-> FALSE, currentMessage |-> "",
              displayedText |-> "", typewriterTimer |-> Undefined,
              autoHideTimer |-> Undefined, time |-> {}, shown |-> 0]

\* No interact call in flight, the panel and the message box as constructed,
\* nothing registered.
InitScene ==
  /\ calls = << >>
  /\ selectedItemId = Null
  /\ slots = << >>
  /\ messageBox = HiddenBox
  /\ hotspots = EmptyMap
  /\ children = {}

\* A scene's HotspotManager after registerAll, nothing hovered, and the
\* response generator as constructed.
InitWorld ==
  /\ InitScene
  /\ hoveredHotspot = Null
  /\ hotspotEnabled = [id \in HotspotIds |-> TRUE]
  /\ onHotspotHover = 0
  /\ onHotspotClick = 0
  /\ pc = "idle"
  /\ frame = NoFrame
  /\ log = << >>
  /\ enabled = TRUE
  /\ cache = EmptyMap

InitCall ==
  /\ InitWorld
  /\ call = [op |-> "init", args |-> << >>]
  /\ ret = Undefined
  /\ pre = EmptyStore
  /\ observed = << >>
  /\ executed = << >>
  /\ snapshot = [s \in Slots |-> NoSnapshot]

\* The store driven through its inventory and persistence API.
Init ==
  /\ InitStore
  /\ InitCall
  /\ actions = << >>

Next ==
  \/ \E item \in Items : AddItem(item)
  \/ \E itemId \in ItemIds : RemoveItem(itemId)
  \/ \E itemId1 \in ItemIds, itemId2 \in ItemIds, resultItem \in CombineResults :
       CombineItems(itemId1, itemId2, resultItem)
  \/ OnInventoryChanged
  \/ \E slot \in Slots : Save(slot)
  \/ \E slot \in Slots : Load(slot)
  \/ Reset

Spec == Init /\ [][Next]_vars

-----------------------------------------------------------------------------
(* GameStateManager: flags, counters, rooms and damaged save data *)

SetFlag(name, value) ==
  /\ StoreCall("setFlag", <<name, value>>, setFlag(Store, name, value))
  /\ UNCHANGED <<localStorage, actions, snapshot, worldVars>>

SetCounter(name, value) ==
  /\ StoreCall("setCounter", <<name, value>>, setCounter(Store, name, value))
  /\ UNCHANGED <<localStorage, actions, snapshot, worldVars>>

SetCurrentRoom(roomId) ==
  /\ StoreCall("setCurrentRoom", <<roomId>>, setCurrentRoom(Store, roomId))
  /\ UNCHANGED <<localStorage, actions, snapshot, worldVars>>

SetRoomObjectState(roomId, objectId, state) ==
  /\ StoreCall("setRoomObjectState", <<roomId, objectId, state>>,
               setRoomObjectState(Store, roomId, objectId, state))
  /\ UNCHANGED <<localStorage, actions, snapshot, worldVars>>

HasVisitedRoom(roomId) ==
  /\ StoreCall("hasVisitedRoom", <<roomId>>, hasVisitedRoom(Store, roomId))
  /\ UNCHANGED <<localStorage, actions, snapshot, worldVars>>

OnFlagChanged ==
  /\ onFlagChange < MaxCallbacks
  /\ StoreCall("onFlagChanged", << >>, onFlagChanged(Store))
  /\ UNCHANGED <<localStorage, actions, snapshot, worldVars>>

CounterNames == {"n"}
RoomIds == {"forest", "village"}
ObjectIds == {"o"}

\* Save data of another origin: what a different build, a hand edit or a
\* truncated write left under the slot key.
ForeignData ==
  [flags |-> [k \in {"f"} |-> TRUE],
   counters |-> [k \in {"n"} |-> 1],
   inventory |-> <<InventoryItem("b", "B", {"b"})>>,
   roomStates |-> [k \in {"forest"} |-> RoomState(TRUE, EmptyMap)],
   currentRoom |-> "forest"]

\* Damaged contents of a slot: text that is no JSON, the JSON text `null`,
\* and objects lacking one of the fields or holding a number in one.
RawTexts ==
  { SaveText("invalid", {}, {}, Data(EmptyStore)),
    SaveText("null", {}, {}, Data(EmptyStore)) }
  \cup { SaveText("object", {field}, {}, ForeignData) :
            field \in {"flags", "counters", "roomStates"} }
  \cup { SaveText("object", {}, {field}, ForeignData) :
            field \in {"flags", "roomStates"} }

\* localStorage.setItem by anything other than save.
WriteRaw(slot, text) ==
  /\ localStorage' = [localStorage EXCEPT ![slot] = text]
  /\ snapshot' = [snapshot EXCEPT ![slot] = NoSnapshot]
  /\ call' = [op |-> "writeRaw", args |-> <<slot>>]
  /\ ret' = Undefined
  /\ pre' = Store
  /\ observed' = << >>
  /\ executed' = << >>
  /\ UNCHANGED <<storeVars, actions, worldVars>>

\* The items the persistence runs add: two, so that order shows.
PersistItems == { InventoryItem("a", "A", {"b"}), InventoryItem("b", "B", {"b"}) }

\* The store driven through its whole mutation API, saved, loaded and reset,
\* with slots that may hold damaged data.
NextPersist ==
  \/ \E name \in FlagNames : SetFlag(name, TRUE)
  \/ \E name \in CounterNames : SetCounter(name, 1)
  \/ \E item \in PersistItems : AddItem(item)
  \/ \E item \in PersistItems : RemoveItem(item.id)
  \/ SetCurrentRoom("forest")
  \/ \E objectId \in ObjectIds : SetRoomObjectState("forest", objectId, TRUE)
  \/ \E slot \in Slots : Save(slot)
  \/ \E slot \in Slots : Load(slot)
  \/ Reset
  \/ \E slot \in Slots, text \in RawTexts : WriteRaw(slot, text)

SpecPersist == Init /\ [][NextPersist]_vars

\* The store with subscribers: callbacks are registered, then flags and the
\* inventory change, and the store is saved, loaded and reset.
NextNotify ==
  \/ OnInventoryChanged
  \/ OnFlagChanged
  \/ \E name \in FlagNames, value \in BOOLEAN : SetFlag(name, value)
  \/ \E item \in PersistItems : AddItem(item)
  \/ \E item \in PersistItems : RemoveItem(item.id)
  \/ \E slot \in Slots : Save(slot)
  \/ \E slot \in Slots : Load(slot)
  \/ Reset

SpecNotify == Init /\ [][NextNotify]_vars

\* Scene.create: the first-visit check, then the room is made current.  The
\* call returns isFirstVisit.
create(S, roomId) ==
  LET r1 == hasVisitedRoom(S, roomId)
      isFirstVisit == ~r1.ret
      r2 == setCurrentRoom(r1.store, roomId)
  IN  [store |-> r2.store, ret |-> isFirstVisit, seen |-> << >>]

Create(roomId) ==
  /\ StoreCall("create", <<roomId>>, create(Store, roomId))
  /\ UNCHANGED <<localStorage, actions, snapshot, worldVars>>

\* The store driven through its room API by scenes that are entered in any
\* order, saved, loaded and reset.
NextRooms ==
  \/ \E roomId \in RoomIds : SetCurrentRoom(roomId)
  \/ \E roomId \in RoomIds : HasVisitedRoom(roomId)
  \/ \E roomId \in RoomIds, objectId \in ObjectIds :
       SetRoomObjectState(roomId, objectId, TRUE)
  \/ \E roomId \in RoomIds : Create(roomId)
  \/ \E slot \in Slots : Save(slot)
  \/ \E slot \in Slots : Load(slot)
  \/ Reset

SpecRooms == Init /\ [][NextRooms]_vars

-----------------------------------------------------------------------------
(* Hotspot: the action list and its resolution *)

Verbs == {"USE", "TAKE"}

\* verb.toLowerCase()
toLowerCase(verb) ==
  CASE verb = "LOOK" -> "look" [] verb = "USE" -> "use" [] verb = "TAKE" -> "take"
    [] verb = "TALK" -> "talk" [] verb = "PUSH" -> "push" [] verb = "PULL" -> "pull"

\* `You can't ${verb.toLowerCase()} that.`
CannedRejection(verb) == "You can't " \o toLowerCase(verb) \o " that."

\* The heldItemId arguments: none, the item actions may require, another item.
HeldIds == {Undefined, "a", "b"}

\* The requiresItem fields: none, or the item "a".
RequiredIds == {Undefined, "a"}

\* The onExecute closures of the scenes, as data.  "trade" is the trader's:
\* removeItem(given); addItem(received); setFlag(done, true).
Effects == {Undefined, "trade"}

\* The enabled closures of the scenes, as data: none, or the trader's
\* () => !getFlag(done).
Predicates == {Undefined, "notFlag"}

TradeFlag == "f"
TradeGiven == "a"
TradeReceived == InventoryItem("c", "C", {})

\* JavaScript truthiness of an optional string.
Truthy(x) == x # Undefined /\ x # ""

\* The items the scenes hand out (description and icon left out).
Machete == InventoryItem("machete", "Machete", {})
Flower == InventoryItem("flower", "Exotic Flower", {})
Bow == InventoryItem("bow", "Bow & Arrows", {})

\* Every enabled closure answers true, whatever the store holds.
evalEnabledAlways(pred, S) == TRUE

\* action.enabled(): the closure evaluated against the store as it is now.
evalEnabled(pred, S) ==
  CASE pred = "flag" -> getFlag(S, TradeFlag)
    [] pred = "notFlag" -> ~getFlag(S, TradeFlag)
    [] pred = "noMachete" -> ~hasItem(S, "machete")
    [] pred = "hasMachete" -> hasItem(S, "machete")
    [] pred = "noFlower" -> ~hasItem(S, "flower")
    [] pred = "vinesCut" -> getFlag(S, "vines_cut")
    [] pred = "notVinesCut" -> ~getFlag(S, "vines_cut")
    [] pred = "traded" -> getFlag(S, "traded_flower")
    [] pred = "notTraded" -> ~getFlag(S, "traded_flower")

\* !a.enabled || a.enabled()
isEnabled(a, S) == a.enabled = Undefined \/ evalEnabled(a.enabled, S)

\* The village trade without its last statement: the flag is never set.
runOnExecuteNoFlag(effect, S) ==
  CASE effect = "trade" ->
         LET r1 == removeItem(S, TradeGiven)
             r2 == addItem(r1.store, TradeReceived)
             r3 == setFlag(r2.store, TradeFlag, TRUE)
         IN  [store |-> r3.store, seen |-> r1.seen \o r2.seen \o r3.seen]
    [] effect = "tradeFlower" ->
         LET r1 == removeItem(S, "flower")
             r2 == addItem(r1.store, Bow)
         IN  [store |-> r2.store, seen |-> r1.seen \o r2.seen]
    [] effect = "takeMachete" ->
         LET r == addItem(S, Machete)
         IN  [store |-> r.store, seen |-> r.seen]
    [] effect = "takeFlower" ->
         LET r == addItem(S, Flower)
         IN  [store |-> r.store, seen |-> r.seen]
    [] effect = "cut" ->
         LET r == setFlag(S, "vines_cut", TRUE)
         IN  [store |-> r.store, seen |-> r.seen]
    [] effect \in {"wait", "fail", "goVillage", "slowTake"} ->
         [store |-> S, seen |-> << >>]

\* action.onExecute(): what the closure does to the store.  "takeMachete",
\* "takeFlower", "cut" and "goVillage" are the forest's, "tradeFlower" the
\* village trader's; "wait" awaits something and "fail" throws, neither
\* touching the store; "goVillage" starts a camera fade and a timer only;
\* "slowTake" awaits before it touches the store.
runOnExecute(effect, S) ==
  CASE effect = "trade" ->
         LET r1 == removeItem(S, TradeGiven)
             r2 == addItem(r1.store, TradeReceived)
             r3 == setFlag(r2.store, TradeFlag, TRUE)
         IN  [store |-> r3.store, seen |-> r1.seen \o r2.seen \o r3.seen]
    [] effect = "tradeFlower" ->
         LET r1 == removeItem(S, "flower")
             r2 == addItem(r1.store, Bow)
             r3 == setFlag(r2.store, "traded_flower", TRUE)
         IN  [store |-> r3.store, seen |-> r1.seen \o r2.seen \o r3.seen]
    [] effect = "takeMachete" ->
         LET r == addItem(S, Machete)
         IN  [store |-> r.store, seen |-> r.seen]
    [] effect = "takeFlower" ->
         LET r == addItem(S, Flower)
         IN  [store |-> r.store, seen |-> r.seen]
    [] effect = "cut" ->
         LET r == setFlag(S, "vines_cut", TRUE)
         IN  [store |-> r.store, seen |-> r.seen]
    [] effect \in {"wait", "fail", "goVillage", "slowTake"} ->
         [store |-> S, seen |-> << >>]

\* The first pass alone decides: the second pass does not skip an action whose
\* required item is not the held one.
findActionNoItemCheck(acts, S, verb, heldItemId) ==
  LET itemAction ==
        IF Truthy(heldItemId)
        THEN FirstIndex({ i \in 1..Len(acts) :
                            /\ acts[i].verb = verb
                            /\ acts[i].requiresItem = heldItemId
                            /\ isEnabled(acts[i], S) })
        ELSE 0
  IN  IF itemAction # 0 THEN itemAction
      ELSE FirstIndex({ i \in 1..Len(acts) :
                          acts[i].verb = verb /\ isEnabled(acts[i], S) })

\* One pass in list order, as when actions were looked up by verb alone.
findActionSinglePass(acts, S, verb, heldItemId) ==
  FirstIndex({ i \in 1..Len(acts) :
                 /\ acts[i].verb = verb
                 /\ isEnabled(acts[i], S)
                 /\ ~(Truthy(acts[i].requiresItem)
                        /\ acts[i].requiresItem # heldItemId) })

\* Hotspot.findAction: the index of the selected action, 0 for undefined.
findAction(acts, S, verb, heldItemId) ==
  LET itemAction ==
        IF Truthy(heldItemId)
        THEN FirstIndex({ i \in 1..Len(acts) :
                            /\ acts[i].verb = verb
                            /\ acts[i].requiresItem = heldItemId
                            /\ isEnabled(acts[i], S) })
        ELSE 0
  IN  IF itemAction # 0 THEN itemAction
      ELSE FirstIndex({ i \in 1..Len(acts) :
                          /\ acts[i].verb = verb
                          /\ isEnabled(acts[i], S)
                          /\ ~(Truthy(acts[i].requiresItem)
                                 /\ acts[i].requiresItem # heldItemId) })

hasAction(acts, S, verb, heldItemId) == findAction(acts, S, verb, heldItemId) # 0

getAction(acts, S, verb, heldItemId) == findAction(acts, S, verb, heldItemId)

\* The verbs of the enabled actions from index i on, added to the Set `verbs`
\* (kept in insertion order).
RECURSIVE addVerbs(_, _, _, _)
addVerbs(acts, S, i, verbs) ==
  IF i > Len(acts) THEN verbs
  ELSE addVerbs(acts, S, i + 1,
                IF isEnabled(acts[i], S) /\ acts[i].verb \notin Range(verbs)
                THEN Append(verbs, acts[i].verb)
                ELSE verbs)

\* As addVerbs, skipping the actions whose required item is not the held one.
RECURSIVE addVerbsByItem(_, _, _, _, _)
addVerbsByItem(acts, S, heldItemId, i, verbs) ==
  IF i > Len(acts) THEN verbs
  ELSE addVerbsByItem(acts, S, heldItemId, i + 1,
                      IF /\ isEnabled(acts[i], S)
                         /\ ~(Truthy(acts[i].requiresItem)
                                /\ acts[i].requiresItem # heldItemId)
                         /\ acts[i].verb \notin Range(verbs)
                      THEN Append(verbs, acts[i].verb)
                      ELSE verbs)

\* The verbs of the enabled actions whose item requirement the held item meets.
getAvailableVerbsByItem(acts, S, heldItemId) ==
  addVerbsByItem(acts, S, heldItemId, 1, << >>)

\* Hotspot.getAvailableVerbs: Array.from(verbs)
getAvailableVerbs(acts, S, heldItemId) == addVerbs(acts, S, 1, << >>)

\* The missing-item branch answers with a fixed sentence instead of the
\* item-requiring action's own response.
executeActionFixedText(acts, S, verb, heldItemId) ==
  LET anyAction == FirstIndex({ i \in 1..Len(acts) :
                                  acts[i].verb = verb /\ isEnabled(acts[i], S) })
      matchingAction == findAction(acts, S, verb, heldItemId)
  IN  IF anyAction = 0
      THEN [store |-> S, ret |-> CannedRejection(verb), seen |-> << >>, ran |-> << >>]
      ELSE IF matchingAction = 0
      THEN [store |-> S, ret |-> "You need something else to do that.",
            seen |-> << >>, ran |-> << >>]
      ELSE IF acts[matchingAction].onExecute # Undefined
      THEN LET r == runOnExecute(acts[matchingAction].onExecute, S)
           IN  [store |-> r.store, ret |-> acts[matchingAction].response,
                seen |-> r.seen, ran |-> <<matchingAction>>]
      ELSE [store |-> S, ret |-> acts[matchingAction].response,
            seen |-> << >>, ran |-> << >>]

\* The missing-item branch answers with the canned rejection.
executeActionRejects(acts, S, verb, heldItemId) ==
  LET matchingAction == findAction(acts, S, verb, heldItemId)
  IN  IF matchingAction = 0
      THEN [store |-> S, ret |-> CannedRejection(verb), seen |-> << >>, ran |-> << >>]
      ELSE IF acts[matchingAction].onExecute # Undefined
      THEN LET r == runOnExecute(acts[matchingAction].onExecute, S)
           IN  [store |-> r.store, ret |-> acts[matchingAction].response,
                seen |-> r.seen, ran |-> <<matchingAction>>]
      ELSE [store |-> S, ret |-> acts[matchingAction].response,
            seen |-> << >>, ran |-> << >>]

\* The missing-item branch runs the item-requiring action's onExecute.
executeActionRunsItemAction(acts, S, verb, heldItemId) ==
  LET anyAction == FirstIndex({ i \in 1..Len(acts) :
                                  acts[i].verb = verb /\ isEnabled(acts[i], S) })
      found == findAction(acts, S, verb, heldItemId)
      itemAction == FirstIndex({ i \in 1..Len(acts) :
                                   /\ acts[i].verb = verb
                                   /\ Truthy(acts[i].requiresItem)
                                   /\ isEnabled(acts[i], S) })
      matchingAction == IF found # 0 THEN found ELSE itemAction
  IN  IF anyAction = 0 \/ matchingAction = 0
      THEN [store |-> S, ret |-> CannedRejection(verb), seen |-> << >>, ran |-> << >>]
      ELSE IF acts[matchingAction].onExecute # Undefined
      THEN LET r == runOnExecute(acts[matchingAction].onExecute, S)
           IN  [store |-> r.store, ret |-> acts[matchingAction].response,
                seen |-> r.seen, ran |-> <<matchingAction>>]
      ELSE [store |-> S, ret |-> acts[matchingAction].response,
            seen |-> << >>, ran |-> << >>]

\* Hotspot.executeAction: [store, ret, seen, ran], ran being the indexes of the
\* actions whose onExecute was invoked (and awaited), in order.
executeAction(acts, S, verb, heldItemId) ==
  LET anyAction == FirstIndex({ i \in 1..Len(acts) :
                                  acts[i].verb = verb /\ isEnabled(acts[i], S) })
      matchingAction == findAction(acts, S, verb, heldItemId)
      itemAction == FirstIndex({ i \in 1..Len(acts) :
                                   /\ acts[i].verb = verb
                                   /\ Truthy(acts[i].requiresItem)
                                   /\ isEnabled(acts[i], S) })
  IN  IF anyAction = 0
      THEN [store |-> S, ret |-> CannedRejection(verb), seen |-> << >>, ran |-> << >>]
      ELSE IF matchingAction = 0
      THEN IF itemAction # 0
           THEN [store |-> S, ret |-> acts[itemAction].response,
                 seen |-> << >>, ran |-> << >>]
           ELSE [store |-> S, ret |-> CannedRejection(verb),
                 seen |-> << >>, ran |-> << >>]
      ELSE IF acts[matchingAction].onExecute # Undefined
      THEN LET r == runOnExecute(acts[matchingAction].onExecute, S)
           IN  [store |-> r.store, ret |-> acts[matchingAction].response,
                seen |-> r.seen, ran |-> <<matchingAction>>]
      ELSE [store |-> S, ret |-> acts[matchingAction].response,
            seen |-> << >>, ran |-> << >>]

-----------------------------------------------------------------------------
(* Hotspot: the public calls as actions *)

\* A query of the hotspot: nothing but the call record changes.
HotspotQuery(op, args, result) ==
  /\ call' = [op |-> op, args |-> args]
  /\ ret' = result
  /\ pre' = Store
  /\ observed' = << >>
  /\ executed' = << >>
  /\ UNCHANGED <<storeVars, localStorage, actions, snapshot, worldVars>>

HasAction(verb, heldItemId) ==
  HotspotQuery("hasAction", <<verb, heldItemId>>,
               hasAction(actions, Store, verb, heldItemId))

GetAction(verb, heldItemId) ==
  HotspotQuery("getAction", <<verb, heldItemId>>,
               getAction(actions, Store, verb, heldItemId))

GetAvailableVerbs(heldItemId) ==
  HotspotQuery("getAvailableVerbs", <<heldItemId>>,
               getAvailableVerbs(actions, Store, heldItemId))

ExecuteAction(verb, heldItemId) ==
  LET r == executeAction(actions, Store, verb, heldItemId)
  IN  /\ SetStore(r.store)
      /\ call' = [op |-> "executeAction", args |-> <<verb, heldItemId>>]
      /\ ret' = r.ret
      /\ pre' = Store
      /\ observed' = r.seen
      /\ executed' = r.ran
      /\ UNCHANGED <<localStorage, actions, snapshot, worldVars>>

\* HotspotAction, its response text set by its position in the list.
HotspotAction(core, i) ==
  [verb |-> core.verb, response |-> "response " \o ToString(i),
   requiresItem |-> core.requiresItem, onExecute |-> core.onExecute,
   enabled |-> core.enabled]

\* The actions a list is made of: every verb, requirement, onExecute and
\* enabled over the sets above, and USE actions requiring a second item.
ActionCores ==
  [verb : Verbs, requiresItem : RequiredIds, onExecute : Effects,
   enabled : Predicates]
  \cup
  [verb : {"USE"}, requiresItem : {"b"}, onExecute : Effects,
   enabled : {Undefined}]

\* HotspotConfig.actions: every list of at most MaxActions actions.
ActionLists ==
  UNION { { [i \in 1..n |-> HotspotAction(cores[i], i)] :
              cores \in [1..n -> ActionCores] } : n \in 0..MaxActions }

\* A hotspot constructed over any action list, the player holding the item the
\* trade gives away, and one flag-change callback registered.
InitHotspot ==
  /\ flags = EmptyMap
  /\ counters = EmptyMap
  /\ inventory = <<InventoryItem("a", "A", {"b"})>>
  /\ roomStates = EmptyMap
  /\ currentRoom = ""
  /\ onInventoryChange = 1
  /\ onFlagChange = 1
  /\ localStorage = [s \in Slots |-> NoData]
  /\ actions \in ActionLists
  /\ call = [op |-> "init", args |-> << >>]
  /\ ret = Undefined
  /\ pre = Store
  /\ observed = << >>
  /\ executed = << >>
  /\ snapshot = [s \in Slots |-> NoSnapshot]
  /\ InitWorld

NextHotspot ==
  \/ \E verb \in Verbs, heldItemId \in HeldIds : HasAction(verb, heldItemId)
  \/ \E verb \in Verbs, heldItemId \in HeldIds : GetAction(verb, heldItemId)
  \/ \E heldItemId \in HeldIds : GetAvailableVerbs(heldItemId)
  \/ \E verb \in Verbs, heldItemId \in HeldIds : ExecuteAction(verb, heldItemId)

SpecHotspot == InitHotspot /\ [][NextHotspot]_vars

-----------------------------------------------------------------------------
(* ResponseGenerator: generate, split at its await of the network reply *)

MaxCache == 1

\* `${verb}:${target}:${baseResponse}`
CacheKey(verb, target, baseResponse) ==
  verb \o ":" \o target \o ":" \o baseResponse

\* What the edge function's reply can be: fetch throws, a non-success status,
\* a body that is no JSON, JSON without a response text, JSON with one.
Replies == {"throws", "notOk", "unparseable", "noText", "text"}

\* The text a successful reply carries.
GeneratedText == "generated"

\* The text of another successful reply to the same request: the edge
\* function's model need not answer twice alike.
OtherText == "generated again"

\* The cache is looked up before the enabled switch is read.
generateStartCacheFirst(en, c, verb, target, baseResponse) ==
  LET cacheKey == CacheKey(verb, target, baseResponse)
  IN  IF cacheKey \in DOMAIN c THEN [done |-> TRUE, text |-> c[cacheKey]]
      ELSE IF ~en THEN [done |-> TRUE, text |-> baseResponse]
      ELSE [done |-> FALSE, text |-> Undefined]

\* generate up to the fetch: done with a text when disabled or cached,
\* otherwise a request goes out.
generateStart(en, c, verb, target, baseResponse) ==
  LET cacheKey == CacheKey(verb, target, baseResponse)
  IN  IF ~en THEN [done |-> TRUE, text |-> baseResponse]
      ELSE IF cacheKey \in DOMAIN c THEN [done |-> TRUE, text |-> c[cacheKey]]
      ELSE [done |-> FALSE, text |-> Undefined]

\* The error of a failed fetch or parse is passed on to the caller.
generateFinishPropagates(c, cacheKey, baseResponse, reply) ==
  CASE reply \in {"throws", "unparseable"} ->
         [kind |-> "reject", text |-> Undefined, cache |-> c]
    [] reply = "notOk" ->
         [kind |-> "return", text |-> baseResponse, cache |-> c]
    [] reply = "noText" ->
         [kind |-> "return", text |-> baseResponse,
          cache |-> MapSet(c, cacheKey, baseResponse)]
    [] reply = "text" ->
         [kind |-> "return", text |-> GeneratedText,
          cache |-> MapSet(c, cacheKey, GeneratedText)]
    [] reply = "otherText" ->
         [kind |-> "return", text |-> OtherText,
          cache |-> MapSet(c, cacheKey, OtherText)]

\* generate from the reply on: the catch and the !response.ok branch return
\* baseResponse; otherwise `data.response || baseResponse` is cached and
\* returned.
generateFinish(c, cacheKey, baseResponse, reply) ==
  CASE reply \in {"throws", "notOk", "unparseable"} ->
         [kind |-> "return", text |-> baseResponse, cache |-> c]
    [] reply = "noText" ->
         [kind |-> "return", text |-> baseResponse,
          cache |-> MapSet(c, cacheKey, baseResponse)]
    [] reply = "text" ->
         [kind |-> "return", text |-> GeneratedText,
          cache |-> MapSet(c, cacheKey, GeneratedText)]
    [] reply = "otherText" ->
         [kind |-> "return", text |-> OtherText,
          cache |-> MapSet(c, cacheKey, OtherText)]

-----------------------------------------------------------------------------
(* HotspotManager: hover tracking and interact *)

\* HotspotConfig.actions of the scenes' hotspots: the forest's vines, flower,
\* stump and path to the village, and the village's trader.  "other" stands
\* for a hotspot whose onExecute awaits something and one whose onExecute
\* throws, "crate" for a one-shot TAKE whose onExecute awaits and then adds
\* the item; HotspotAction.onExecute allows these and no scene has them yet.
SceneActions(id) ==
  CASE id = "vines" ->
         << [verb |-> "LOOK",
             response |-> "Thick jungle vines block the path ahead. They're too tough to push through.",
             requiresItem |-> Undefined, onExecute |-> Undefined, enabled |-> Undefined],
            [verb |-> "USE",
             response |-> "You hack through the vines with the machete! The path ahead is now clear.",
             requiresItem |-> "machete", onExecute |-> "cut", enabled |-> Undefined],
            [verb |-> "USE",
             response |-> "You need something sharp to cut through these vines.",
             requiresItem |-> Undefined, onExecute |-> Undefined, enabled |-> Undefined],
            [verb |-> "PUSH",
             response |-> "The vines are too thick and tangled. You can't push through them.",
             requiresItem |-> Undefined, onExecute |-> Undefined, enabled |-> Undefined],
            [verb |-> "PULL",
             response |-> "You tug at the vines, but they won't budge.",
             requiresItem |-> Undefined, onExecute |-> Undefined, enabled |-> Undefined],
            [verb |-> "TAKE",
             response |-> "The vines are rooted deep into the ground.",
             requiresItem |-> Undefined, onExecute |-> Undefined, enabled |-> Undefined] >>
    [] id = "flower" ->
         << [verb |-> "LOOK",
             response |-> "A beautiful exotic flower with bright red petals. It smells amazing!",
             requiresItem |-> Undefined, onExecute |-> Undefined, enabled |-> Undefined],
            [verb |-> "TAKE",
             response |-> "You pick the exotic flower. It might be useful later!",
             requiresItem |-> Undefined, onExecute |-> "takeFlower", enabled |-> "noFlower"],
            [verb |-> "USE",
             response |-> "You sniff the flower. It smells wonderful!",
             requiresItem |-> Undefined, onExecute |-> Undefined, enabled |-> Undefined] >>
    [] id = "stump" ->
         << [verb |-> "LOOK",
             response |-> "An old tree stump. There's a rusty machete stuck in the top!",
             requiresItem |-> Undefined, onExecute |-> Undefined, enabled |-> "noMachete"],
            [verb |-> "LOOK",
             response |-> "Just an old tree stump now. You already took the machete.",
             requiresItem |-> Undefined, onExecute |-> Undefined, enabled |-> "hasMachete"],
            [verb |-> "TAKE",
             response |-> "You pull the old machete from the stump! This could be useful.",
             requiresItem |-> Undefined, onExecute |-> "takeMachete", enabled |-> "noMachete"],
            [verb |-> "USE",
             response |-> "It's just a stump.",
             requiresItem |-> Undefined, onExecute |-> Undefined, enabled |-> Undefined] >>
    [] id = "path-village" ->
         << [verb |-> "LOOK",
             response |-> "A narrow path leads through the jungle. You can see smoke from a village in the distance.",
             requiresItem |-> Undefined, onExecute |-> Undefined, enabled |-> "vinesCut"],
            [verb |-> "LOOK",
             response |-> "Thick vines block the path. You'll need to clear them first.",
             requiresItem |-> Undefined, onExecute |-> Undefined, enabled |-> "notVinesCut"],
            [verb |-> "USE",
             response |-> "You head down the path toward the village...",
             requiresItem |-> Undefined, onExecute |-> "goVillage", enabled |-> "vinesCut"] >>
    [] id = "trader" ->
         << [verb |-> "LOOK",
             response |-> "A friendly indigenous woman stands behind a table covered with handmade tools and crafts. She smiles warmly at you.",
             requiresItem |-> Undefined, onExecute |-> Undefined, enabled |-> Undefined],
            [verb |-> "TALK",
             response |-> "\"Welcome, travelers! I trade fine tools for beautiful things from the jungle. Do you have anything special to trade?\"",
             requiresItem |-> Undefined, onExecute |-> Undefined, enabled |-> "notTraded"],
            [verb |-> "TALK",
             response |-> "\"Thank you again for the beautiful flower! Safe travels, friends.\"",
             requiresItem |-> Undefined, onExecute |-> Undefined, enabled |-> "traded"],
            [verb |-> "USE",
             response |-> "\"Ah, what a magnificent flower! I will trade you this fine bow and arrows for it. May it protect you on your journey!\"",
             requiresItem |-> "flower", onExecute |-> "tradeFlower", enabled |-> "notTraded"],
            [verb |-> "USE",
             response |-> "\"I have nothing else to trade right now, but thank you for visiting!\"",
             requiresItem |-> Undefined, onExecute |-> Undefined, enabled |-> "traded"] >>
    [] id = "crate" ->
         << [verb |-> "TAKE",
             response |-> "You pry the crate open and take the machete.",
             requiresItem |-> Undefined, onExecute |-> "slowTake", enabled |-> "noMachete"] >>
    [] id = "other" ->
         << [verb |-> "USE",
             response |-> "It hums.",
             requiresItem |-> Undefined, onExecute |-> "wait", enabled |-> Undefined],
            [verb |-> "TAKE",
             response |-> "It crumbles.",
             requiresItem |-> Undefined, onExecute |-> "fail", enabled |-> Undefined] >>

\* Hotspot.hotspotName (config.name)
hotspotName(id) ==
  CASE id = "vines" -> "thick vines"
    [] id = "flower" -> "exotic flower"
    [] id = "stump" -> "tree stump"
    [] id = "path-village" -> "path to village"
    [] id = "trader" -> "Village Trader"
    [] id = "crate" -> "old crate"
    [] id = "other" -> "other thing"

\* The hotspots an onExecute disables (hotspotManager.setEnabled(id, false)).
Disables(effect) ==
  CASE effect = "cut" -> {"vines"}
    [] effect = "takeFlower" -> {"flower"}
    [] OTHER -> {}

\* One thing an interact call did.
Event(ev, hotspot, verb, text, index) ==
  [ev |-> ev, hotspot |-> hotspot, verb |-> verb, text |-> text, index |-> index]

\* interact from the resumption after `await executeAction` on: the click
\* callbacks, then generate, both reading this.hoveredHotspot as it is now.
afterExecute(fr, soFar) ==
  LET clicks == [k \in 1..onHotspotClick |->
                   Event("click", hoveredHotspot, fr.verb, Undefined, k)]
  IN  IF hoveredHotspot = Null
      THEN \* this.hoveredHotspot.hotspotName: TypeError
           [pc |-> "done", frame |-> fr,
            log |-> soFar \o clicks \o
                      <<Event("reject", Null, fr.verb, "TypeError", 0)>>]
      ELSE LET target == hotspotName(hoveredHotspot)
               g == generateStart(enabled, cache, fr.verb, target, fr.baseResponse)
               fr1 == [fr EXCEPT !.enabled = enabled,
                                 !.cacheKey = CacheKey(fr.verb, target, fr.baseResponse)]
               called == Event("generate", hoveredHotspot, fr.verb, fr.baseResponse, 0)
           IN  IF g.done
               THEN [pc |-> "done", frame |-> fr1,
                     log |-> soFar \o clicks \o
                               <<called, Event("return", Null, fr.verb, g.text, 0)>>]
               ELSE [pc |-> "fetch", frame |-> fr1,
                     log |-> soFar \o clicks \o
                               <<called, Event("fetch", Null, fr.verb, Undefined, 0)>>]

\* A call or event of the manager or the generator that is not interact;
\* the arguments are recorded for the pointer events only.  Events are tasks
\* of the run loop: none comes between the settling of interact's promise
\* and its caller's continuation (pc = "done").
ManagerCall(op, args, result) ==
  /\ pc # "done"
  /\ call' = [op |-> op, args |-> args]
  /\ ret' = result
  /\ pre' = Store
  /\ executed' = << >>
  /\ UNCHANGED <<storeVars, localStorage, actions, snapshot,
                 onHotspotHover, onHotspotClick, pc, frame, log, sceneVars>>

\* hotspot.on('pointerover'): Phaser emits it for interactive objects only.
PointerOver(id) ==
  /\ hotspotEnabled[id]
  /\ ManagerCall("pointerover", <<id>>, Undefined)
  /\ hoveredHotspot' = id
  /\ observed' = [k \in 1..onHotspotHover |-> [cb |-> k, hotspot |-> id]]
  /\ UNCHANGED <<hotspotEnabled, enabled, cache>>

\* The hover target is cleared whichever hotspot the pointer left.
PointerOutAny(id) ==
  /\ ManagerCall("pointerout", <<id>>, Undefined)
  /\ hoveredHotspot' = Null
  /\ observed' = [k \in 1..onHotspotHover |-> [cb |-> k, hotspot |-> Null]]
  /\ UNCHANGED <<hotspotEnabled, enabled, cache>>

\* hotspot.on('pointerout')
PointerOut(id) ==
  /\ ManagerCall("pointerout", <<id>>, Undefined)
  /\ IF hoveredHotspot = id
     THEN /\ hoveredHotspot' = Null
          /\ observed' = [k \in 1..onHotspotHover |-> [cb |-> k, hotspot |-> Null]]
     ELSE /\ hoveredHotspot' = hoveredHotspot
          /\ observed' = << >>
  /\ UNCHANGED <<hotspotEnabled, enabled, cache>>

\* HotspotManager.getHovered
getHovered == hoveredHotspot

\* HotspotManager.setEnabled -> Hotspot.setEnabled
SetEnabled(id, value) ==
  /\ ManagerCall("setEnabled", << >>, Undefined)
  /\ hotspotEnabled' = [hotspotEnabled EXCEPT ![id] = value]
  /\ observed' = << >>
  /\ UNCHANGED <<hoveredHotspot, enabled, cache>>

\* ResponseGeneratorClass.setEnabled
GeneratorSetEnabled(value) ==
  /\ ManagerCall("generator.setEnabled", << >>, Undefined)
  /\ enabled' = value
  /\ observed' = << >>
  /\ UNCHANGED <<hoveredHotspot, hotspotEnabled, cache>>

\* ResponseGeneratorClass.clearCache
ClearCache ==
  /\ ManagerCall("clearCache", << >>, Undefined)
  /\ cache' = EmptyMap
  /\ observed' = << >>
  /\ UNCHANGED <<hoveredHotspot, hotspotEnabled, enabled>>

\* HotspotManager.interact, from the call to its first suspension or its end.
\* An onExecute that returns lets the call run on to generate; one that
\* awaits suspends it; one that throws rejects executeAction and the call.
Interact(verb, heldItemId) ==
  /\ pc = "idle"
  /\ call' = [op |-> "interact", args |-> << >>]
  /\ ret' = Undefined
  /\ pre' = Store
  /\ observed' = << >>
  /\ IF hoveredHotspot = Null
     THEN /\ pc' = "done"
          /\ frame' = [NoFrame EXCEPT !.verb = verb, !.heldItemId = heldItemId]
          /\ log' = <<Event("return", Null, verb, Null, 0)>>
          /\ executed' = << >>
          /\ UNCHANGED <<storeVars, hotspotEnabled>>
     ELSE LET h == hoveredHotspot
              r == executeAction(SceneActions(h), Store, verb, heldItemId)
              effect == IF r.ran = << >> THEN Undefined
                        ELSE SceneActions(h)[r.ran[1]].onExecute
              fr == [NoFrame EXCEPT !.verb = verb, !.heldItemId = heldItemId,
                                    !.hotspot = h, !.baseResponse = r.ret,
                                    !.wasEnabled = hotspotEnabled[h]]
              ran == <<Event("execute", h, verb, r.ret, 0)>>
              k == afterExecute(fr, ran)
          IN  /\ SetStore(r.store)
              /\ executed' = r.ran
              /\ hotspotEnabled' =
                   [id \in HotspotIds |->
                      IF id \in Disables(effect) THEN FALSE ELSE hotspotEnabled[id]]
              /\ CASE effect = "fail" ->
                        /\ pc' = "done"
                        /\ frame' = fr
                        /\ log' = ran \o <<Event("reject", h, verb, "onExecute", 0)>>
                   [] effect = "wait" ->
                        /\ pc' = "onExecute"
                        /\ frame' = fr
                        /\ log' = ran
                   [] OTHER ->
                        /\ pc' = k.pc
                        /\ frame' = k.frame
                        /\ log' = k.log
  /\ UNCHANGED <<localStorage, actions, snapshot, hoveredHotspot,
                 onHotspotHover, onHotspotClick, enabled, cache, sceneVars>>

\* A step of the interact call in progress: only its own state changes.
InteractStep ==
  /\ call' = [op |-> "resume", args |-> << >>]
  /\ ret' = Undefined
  /\ UNCHANGED <<storeVars, localStorage, actions, snapshot, pre, observed,
                 executed, hoveredHotspot, hotspotEnabled, onHotspotHover,
                 onHotspotClick, enabled, sceneVars>>

\* The awaited onExecute settles and executeAction returns or rejects.
ResumeOnExecute(settles) ==
  /\ pc = "onExecute"
  /\ InteractStep
  /\ cache' = cache
  /\ IF settles = "rejects"
     THEN /\ pc' = "done"
          /\ frame' = frame
          /\ log' = log \o <<Event("reject", frame.hotspot, frame.verb,
                                   "onExecute", 0)>>
     ELSE LET k == afterExecute(frame, log)
          IN  /\ pc' = k.pc
              /\ frame' = k.frame
              /\ log' = k.log

\* The network reply arrives and generate, then interact, return.
Reply(reply) ==
  /\ pc = "fetch"
  /\ reply \in {"noText", "text"} => Cardinality(DOMAIN cache) < MaxCache
  /\ InteractStep
  /\ LET f == generateFinish(cache, frame.cacheKey, frame.baseResponse, reply)
     IN  /\ cache' = f.cache
         /\ pc' = "done"
         /\ frame' = frame
         /\ log' = log \o <<Event("reply", Null, frame.verb, reply, 0),
                             Event(f.kind, Null, frame.verb, f.text, 0)>>

\* The caller has taken the result; the manager is ready for the next call.
Finish ==
  /\ pc = "done"
  /\ InteractStep
  /\ cache' = cache
  /\ pc' = "idle"
  /\ frame' = NoFrame
  /\ log' = << >>

HeldItems == {Undefined, "machete"}

\* A scene with its hotspots registered, one hover and two click subscribers.
InitManager ==
  /\ InitStore
  /\ actions = << >>
  /\ call = [op |-> "init", args |-> << >>]
  /\ ret = Undefined
  /\ pre = EmptyStore
  /\ observed = << >>
  /\ executed = << >>
  /\ snapshot = [s \in Slots |-> NoSnapshot]
  /\ hoveredHotspot = Null
  /\ hotspotEnabled = [id \in HotspotIds |-> TRUE]
  /\ onHotspotHover = 1
  /\ onHotspotClick = 2
  /\ pc = "idle"
  /\ frame = NoFrame
  /\ log = << >>
  /\ enabled = TRUE
  /\ cache = EmptyMap
  /\ InitScene

NextManager ==
  \/ \E id \in HotspotIds : PointerOver(id)
  \/ \E id \in HotspotIds : PointerOut(id)
  \/ \E id \in HotspotIds, value \in BOOLEAN : SetEnabled(id, value)
  \/ \E value \in BOOLEAN : GeneratorSetEnabled(value)
  \/ ClearCache
  \/ \E verb \in Verbs, heldItemId \in HeldItems : Interact(verb, heldItemId)
  \/ \E settles \in {"resolves", "rejects"} : ResumeOnExecute(settles)
  \/ \E reply \in Replies : Reply(reply)
  \/ Finish

SpecManager == InitManager /\ [][NextManager]_vars

-----------------------------------------------------------------------------
(* The scenes' one-shot hotspots driven through executeAction *)

\* The hotspots whose actions are gated by what their own onExecute changes.
ScenarioHotspots == {"stump", "trader"}

\* The verbs the scenes' clicks dispatch.
SceneVerbs == {"LOOK", "USE", "TAKE", "TALK"}

\* The heldItemId arguments: none, or an item of the game.
SceneHeld == {Undefined, "machete", "flower", "bow"}

\* A fresh store and the stump or the trader constructed from its config.
InitScenario ==
  /\ InitStore
  /\ InitCall
  /\ actions \in { SceneActions(id) : id \in ScenarioHotspots }

\* executeAction and getAvailableVerbs on the hotspot, the flower picked up
\* elsewhere (the forest's flower hotspot), and items leaving the inventory.
NextScenario ==
  \/ \E verb \in SceneVerbs, heldItemId \in SceneHeld : ExecuteAction(verb, heldItemId)
  \/ \E heldItemId \in SceneHeld : GetAvailableVerbs(heldItemId)
  \/ AddItem(Flower)
  \/ \E itemId \in {"machete", "flower"} : RemoveItem(itemId)

SpecScenario == InitScenario /\ [][NextScenario]_vars

-----------------------------------------------------------------------------
(* HotspotManager.interact with several calls in flight.  A call runs from  *)
(* the click to its first wait on something outside the run loop (an        *)
(* onExecute that awaits, the generator's fetch) and from the end of one    *)
(* such wait to the next; awaits of settled promises in between are         *)
(* microtasks that no other click can precede.                              *)

MaxCalls == 2

\* The hotspots of the scenes the calls are made in: the forest's one-shot
\* hotspots, the village's trader, and a yard holding the crate.
ConcurrentScenes == { {"stump", "flower"}, {"trader"}, {"crate"} }

\* Every onExecute closure awaits before it touches the store.
SuspendsAll ==
  {"slowTake", "wait", "takeMachete", "takeFlower", "tradeFlower", "cut"}

\* The onExecute closures that await before they return.
Suspends == {"slowTake", "wait"}

\* The awaited part of a closure is skipped when the store already holds
\* what it would add.
settleOnExecuteRechecks(effect, S) ==
  IF effect = "slowTake"
  THEN IF hasItem(S, "machete")
       THEN [store |-> S, seen |-> << >>, ran |-> FALSE]
       ELSE LET r == addItem(S, Machete)
            IN  [store |-> r.store, seen |-> r.seen, ran |-> TRUE]
  ELSE LET r == runOnExecute(effect, S)
       IN  [store |-> r.store, seen |-> r.seen, ran |-> effect # "wait"]

\* What an onExecute does once the thing it awaited has settled: the crate's
\* adds the machete; a closure that did not touch the store before its await
\* does then what it does.
settleOnExecute(effect, S) ==
  IF effect = "slowTake"
  THEN LET r == addItem(S, Machete)
       IN  [store |-> r.store, seen |-> r.seen, ran |-> TRUE]
  ELSE LET r == runOnExecute(effect, S)
       IN  [store |-> r.store, seen |-> r.seen, ran |-> effect # "wait"]

\* The locals of an interact call; pc is "idle" when the slot holds no call.
\* checkedAt is the number of side effects that had been applied when the
\* call passed executeAction's check.
NoCall == [pc |-> "idle", verb |-> Undefined, heldItemId |-> Undefined,
           hotspot |-> Null, index |-> 0, baseResponse |-> Undefined,
           cacheKey |-> Undefined, checkedAt |-> 0]

\* The slot a new call takes.
FreeSlot == CHOOSE c \in 1..MaxCalls :
              /\ calls[c].pc = "idle"
              /\ \A d \in 1..MaxCalls : calls[d].pc = "idle" => c <= d

\* A side effect applied to the store: the action of the hotspot whose
\* onExecute ran, in which call, and what that call had seen at its check.
Applied(fr, c) ==
  [hotspot |-> fr.hotspot, index |-> fr.index, call |-> c,
   checkedAt |-> fr.checkedAt]

\* interact after `await executeAction`: generate for the hotspot hovered
\* now.  Gives the call's frame from here on and what it returns, if it ends.
interactGenerate(fr) ==
  IF hoveredHotspot = Null
  THEN [frame |-> NoCall, outcome |-> "reject", text |-> "TypeError"]
  ELSE LET target == hotspotName(hoveredHotspot)
           g == generateStart(enabled, cache, fr.verb, target, fr.baseResponse)
       IN  IF g.done
           THEN [frame |-> NoCall, outcome |-> "return", text |-> g.text]
           ELSE [frame |-> [fr EXCEPT !.pc = "fetch",
                               !.cacheKey = CacheKey(fr.verb, target, fr.baseResponse)],
                 outcome |-> "pending", text |-> Undefined]

\* What a step of a call leaves in `ret`.
Outcome(outcome, text, baseResponse) ==
  [outcome |-> outcome, text |-> text, baseResponse |-> baseResponse]

\* HotspotManager.interact, called while other calls may be in flight, up to
\* its first wait or its end.
InteractAmong(verb, heldItemId) ==
  /\ \E c \in 1..MaxCalls : calls[c].pc = "idle"
  /\ call' = [op |-> "interact", args |-> <<FreeSlot, verb, heldItemId>>]
  /\ pre' = Store
  /\ observed' = << >>
  /\ IF hoveredHotspot = Null
     THEN /\ ret' = Outcome("return", Null, Undefined)
          /\ executed' = << >>
          /\ UNCHANGED <<storeVars, hotspotEnabled, calls, log>>
     ELSE LET h == hoveredHotspot
              r == executeAction(SceneActions(h), Store, verb, heldItemId)
              index == IF r.ran = << >> THEN 0 ELSE r.ran[1]
              effect == IF index = 0 THEN Undefined
                        ELSE SceneActions(h)[index].onExecute
              fr == [NoCall EXCEPT !.pc = "onExecute", !.verb = verb,
                                   !.heldItemId = heldItemId, !.hotspot = h,
                                   !.index = index, !.baseResponse = r.ret,
                                   !.checkedAt = Len(log)]
              k == interactGenerate(fr)
          IN  /\ executed' = r.ran
              /\ IF effect \in Suspends
                 THEN /\ calls' = [calls EXCEPT ![FreeSlot] = fr]
                      /\ ret' = Outcome("pending", Undefined, r.ret)
                      /\ UNCHANGED <<storeVars, hotspotEnabled, log>>
                 ELSE /\ SetStore(r.store)
                      /\ hotspotEnabled' =
                           [id \in DOMAIN hotspotEnabled |->
                              IF id \in Disables(effect) THEN FALSE
                              ELSE hotspotEnabled[id]]
                      /\ log' = IF index = 0 THEN log
                                ELSE Append(log, Applied(fr, FreeSlot))
                      /\ calls' = [calls EXCEPT ![FreeSlot] = k.frame]
                      /\ ret' = Outcome(k.outcome, k.text, r.ret)
  /\ UNCHANGED <<localStorage, actions, snapshot, hoveredHotspot,
                 onHotspotHover, onHotspotClick, pc, frame, enabled, cache,
                 uiVars>>

\* What call c awaited inside onExecute settles: the closure finishes,
\* executeAction returns the response and interact goes on to generate.
ResumeAmong(c) ==
  /\ calls[c].pc = "onExecute"
  /\ LET fr == calls[c]
         effect == SceneActions(fr.hotspot)[fr.index].onExecute
         r == settleOnExecute(effect, Store)
         k == interactGenerate(fr)
     IN  /\ SetStore(r.store)
         /\ hotspotEnabled' =
              [id \in DOMAIN hotspotEnabled |->
                 IF id \in Disables(effect) THEN FALSE ELSE hotspotEnabled[id]]
         /\ log' = IF r.ran THEN Append(log, Applied(fr, c)) ELSE log
         /\ calls' = [calls EXCEPT ![c] = k.frame]
         /\ call' = [op |-> "resume", args |-> <<c>>]
         /\ ret' = Outcome(k.outcome, k.text, fr.baseResponse)
         /\ pre' = Store
         /\ observed' = r.seen
         /\ executed' = <<fr.index>>
  /\ UNCHANGED <<localStorage, actions, snapshot, hoveredHotspot,
                 onHotspotHover, onHotspotClick, pc, frame, enabled, cache,
                 uiVars>>

\* The replies of the edge function: a failure, and two that carry different
\* texts.
RepliesAmong == {"notOk", "text", "otherText"}

\* The network reply to call c arrives: generate, then interact, return.
ReplyAmong(c, reply) ==
  /\ calls[c].pc = "fetch"
  /\ reply \in {"text", "otherText"} =>
       \/ calls[c].cacheKey \in DOMAIN cache
       \/ Cardinality(DOMAIN cache) < MaxCache
  /\ LET fr == calls[c]
         f == generateFinish(cache, fr.cacheKey, fr.baseResponse, reply)
     IN  /\ cache' = f.cache
         /\ calls' = [calls EXCEPT ![c] = NoCall]
         /\ call' = [op |-> "reply", args |-> <<c, reply>>]
         /\ ret' = Outcome(f.kind, f.text, fr.baseResponse)
         /\ pre' = Store
         /\ observed' = << >>
         /\ executed' = << >>
  /\ UNCHANGED <<storeVars, localStorage, actions, snapshot, hoveredHotspot,
                 hotspotEnabled, onHotspotHover, onHotspotClick, pc, frame,
                 log, enabled, uiVars>>

\* The verbs and held items of the calls.
VerbsAmong == {"USE", "TAKE"}
HeldAmong == {Undefined, "flower"}

\* A scene with its hotspots registered and no subscriber; in the village the
\* player arrives with the flower.
InitConcurrent ==
  /\ flags = EmptyMap
  /\ counters = EmptyMap
  /\ roomStates = EmptyMap
  /\ currentRoom = ""
  /\ onInventoryChange = 0
  /\ onFlagChange = 0
  /\ localStorage = [s \in Slots |-> NoData]
  /\ actions = << >>
  /\ call = [op |-> "init", args |-> << >>]
  /\ ret = Undefined
  /\ pre = EmptyStore
  /\ observed = << >>
  /\ executed = << >>
  /\ snapshot = [s \in Slots |-> NoSnapshot]
  /\ hoveredHotspot = Null
  /\ hotspotEnabled \in { [id \in scene |-> TRUE] : scene \in ConcurrentScenes }
  /\ inventory = IF "trader" \in DOMAIN hotspotEnabled THEN <<Flower>> ELSE << >>
  /\ onHotspotHover = 0
  /\ onHotspotClick = 0
  /\ pc = "idle"
  /\ frame = NoFrame
  /\ log = << >>
  /\ enabled = TRUE
  /\ cache = EmptyMap
  /\ calls = [c \in 1..MaxCalls |-> NoCall]
  /\ selectedItemId = Null
  /\ slots = << >>
  /\ messageBox = HiddenBox
  /\ hotspots = EmptyMap
  /\ children = {}

NextConcurrent ==
  \/ \E id \in DOMAIN hotspotEnabled : PointerOver(id)
  \/ \E id \in DOMAIN hotspotEnabled : PointerOut(id)
  \/ \E verb \in VerbsAmong, heldItemId \in HeldAmong : InteractAmong(verb, heldItemId)
  \/ \E c \in 1..MaxCalls : ResumeAmong(c)
  \/ \E c \in 1..MaxCalls, reply \in RepliesAmong : ReplyAmong(c, reply)

SpecConcurrent == InitConcurrent /\ [][NextConcurrent]_vars

-----------------------------------------------------------------------------
(* GameStateManager with a subscriber that mutates the store.  The first    *)
(* registered callback of either kind calls addItem(Bonus) when it is       *)
(* called; the others only look.  Each invocation is recorded with the      *)
(* depth of the forEach pass it belongs to: 1 for the pass of the call made *)
(* from outside, 2 for a pass started inside a callback, and so on.         *)

\* The item the mutating callback adds.
Bonus == InventoryItem("bonus", "Bonus", {})

\* One invocation of callback cb in a pass of the given depth.
Invocation(kind, cb, depth, S) ==
  [kind |-> kind, cb |-> cb, depth |-> depth, inventory |-> S.inventory,
   flags |-> S.flags]

RECURSIVE forEachInventory(_, _, _)
RECURSIVE addItemFrom(_, _, _)

\* this.onInventoryChange.forEach(cb => cb()) from callback k on, each
\* callback running to its end, inner calls included, before the next.
forEachInventory(S, k, depth) ==
  IF k > S.onInventoryChange THEN [store |-> S, seen |-> << >>]
  ELSE LET inner == IF k = 1 THEN addItemFrom(S, Bonus, depth + 1)
                    ELSE [store |-> S, ret |-> Undefined, seen |-> << >>]
           rest == forEachInventory(inner.store, k + 1, depth)
       IN  [store |-> rest.store,
            seen |-> <<Invocation("inventory", k, depth, S)>>
                       \o inner.seen \o rest.seen]

\* addItem called at the given depth.
addItemFrom(S, item, depth) ==
  IF hasItem(S, item.id)
  THEN [store |-> S, ret |-> FALSE, seen |-> << >>]
  ELSE LET S1 == [S EXCEPT !.inventory = Append(S.inventory, item)]
           n == forEachInventory(S1, 1, depth)
       IN  [store |-> n.store, ret |-> TRUE, seen |-> n.seen]

\* removeItem called from outside.
removeItemFrom(S, itemId, depth) ==
  LET index == getItemIndex(S, itemId)
  IN  IF index = 0
      THEN [store |-> S, ret |-> FALSE, seen |-> << >>]
      ELSE LET S1 == [S EXCEPT !.inventory = Splice(S.inventory, index)]
               n == forEachInventory(S1, 1, depth)
           IN  [store |-> n.store, ret |-> TRUE, seen |-> n.seen]

RECURSIVE forEachFlag(_, _, _)

\* this.onFlagChange.forEach(cb => cb(name, value)) from callback k on.
forEachFlag(S, k, depth) ==
  IF k > S.onFlagChange THEN [store |-> S, seen |-> << >>]
  ELSE LET inner == IF k = 1 THEN addItemFrom(S, Bonus, depth + 1)
                    ELSE [store |-> S, ret |-> Undefined, seen |-> << >>]
           rest == forEachFlag(inner.store, k + 1, depth)
       IN  [store |-> rest.store,
            seen |-> <<Invocation("flag", k, depth, S)>>
                       \o inner.seen \o rest.seen]

\* setFlag called from outside.
setFlagFrom(S, name, value, depth) ==
  LET S1 == [S EXCEPT !.flags = MapSet(S.flags, name, value)]
      n == forEachFlag(S1, 1, depth)
  IN  [store |-> n.store, ret |-> Undefined, seen |-> n.seen]

AddItemReentrant(item) ==
  /\ StoreCall("addItem", <<item>>, addItemFrom(Store, item, 1))
  /\ UNCHANGED <<localStorage, actions, snapshot, worldVars>>

RemoveItemReentrant(itemId) ==
  /\ StoreCall("removeItem", <<itemId>>, removeItemFrom(Store, itemId, 1))
  /\ UNCHANGED <<localStorage, actions, snapshot, worldVars>>

SetFlagReentrant(name, value) ==
  /\ StoreCall("setFlag", <<name, value>>, setFlagFrom(Store, name, value, 1))
  /\ UNCHANGED <<localStorage, actions, snapshot, worldVars>>

\* Subscribers are registered, then inventory and flags change.
NextReentrant ==
  \/ OnInventoryChanged
  \/ OnFlagChanged
  \/ \E item \in PersistItems \cup {Bonus} : AddItemReentrant(item)
  \/ \E item \in PersistItems \cup {Bonus} : RemoveItemReentrant(item.id)
  \/ \E name \in FlagNames, value \in BOOLEAN : SetFlagReentrant(name, value)

SpecReentrant == Init /\ [][NextReentrant]_vars

-----------------------------------------------------------------------------
(* HotspotManager: the registry.  A Hotspot object is named by its config   *)
(* id and a number telling apart the objects made from configs of one id.   *)

MaxHotspots == 3

\* The ids of the configs registered.
RegistryIds == {"stump", "flower"}

\* new Hotspot(scene, config): the n-th object in use.
HotspotObject(id, n) == id \o "#" \o ToString(n)

\* The config id of a Hotspot object.
IdOf(hotspot) ==
  CHOOSE id \in RegistryIds :
    \E n \in 1..MaxHotspots : hotspot = HotspotObject(id, n)

\* The numbers of the objects still referenced: alive in the scene, or held
\* in hoveredHotspot.
InUse ==
  { n \in 1..MaxHotspots :
      \E id \in RegistryIds :
        HotspotObject(id, n) \in children \cup {hoveredHotspot} }

\* HotspotManager.getAll
getAll == { hotspots[id] : id \in DOMAIN hotspots }

\* A call of the registry: the store and the generator are left alone.
RegistryCall(op, args, result) ==
  /\ call' = [op |-> op, args |-> args]
  /\ ret' = result
  /\ pre' = Store
  /\ observed' = << >>
  /\ executed' = << >>
  /\ UNCHANGED <<storeVars, localStorage, actions, snapshot, hotspotEnabled,
                 onHotspotHover, onHotspotClick, pc, frame, log, enabled,
                 cache, calls, selectedItemId, slots, messageBox>>

\* HotspotManager.register: a new object is made and stored under config.id,
\* whatever was stored there before.
Register(id) ==
  /\ InUse # 1..MaxHotspots
  /\ LET n == CHOOSE k \in (1..MaxHotspots) \ InUse :
                \A j \in (1..MaxHotspots) \ InUse : k <= j
         hotspot == HotspotObject(id, n)
     IN  /\ RegistryCall("register", <<id>>, hotspot)
         /\ hotspots' = MapSet(hotspots, id, hotspot)
         /\ children' = children \cup {hotspot}
         /\ hoveredHotspot' = hoveredHotspot

\* HotspotManager.remove: the stored object is destroyed and forgotten.
Remove(id) ==
  IF id \in DOMAIN hotspots
  THEN /\ RegistryCall("remove", <<id>>, TRUE)
       /\ children' = children \ {hotspots[id]}
       /\ hotspots' = [k \in (DOMAIN hotspots) \ {id} |-> hotspots[k]]
       /\ hoveredHotspot' = hoveredHotspot
  ELSE /\ RegistryCall("remove", <<id>>, FALSE)
       /\ UNCHANGED <<hotspots, children, hoveredHotspot>>

\* HotspotManager.clear
Clear ==
  /\ RegistryCall("clear", << >>, Undefined)
  /\ children' = children \ getAll
  /\ hotspots' = EmptyMap
  /\ hoveredHotspot' = Null

\* hotspot.on('pointerover') of an object alive in the scene.
PointerEnter(hotspot) ==
  /\ hotspot \in children
  /\ RegistryCall("pointerover", <<hotspot>>, Undefined)
  /\ hoveredHotspot' = hotspot
  /\ UNCHANGED <<hotspots, children>>

\* hotspot.on('pointerout') of an object alive in the scene; a destroyed
\* object has lost its listeners and emits nothing.
PointerLeave(hotspot) ==
  /\ hotspot \in children
  /\ RegistryCall("pointerout", <<hotspot>>, Undefined)
  /\ hoveredHotspot' = IF hoveredHotspot = hotspot THEN Null ELSE hoveredHotspot
  /\ UNCHANGED <<hotspots, children>>

\* HotspotManager.interact with the generator switched off: executeAction on
\* this.hoveredHotspot, whose response generate hands back as it is.
InteractHovered(verb) ==
  /\ call' = [op |-> "interact", args |-> <<verb, hoveredHotspot>>]
  /\ pre' = Store
  /\ IF hoveredHotspot = Null
     THEN /\ ret' = Null
          /\ observed' = << >>
          /\ executed' = << >>
          /\ UNCHANGED storeVars
     ELSE LET r == executeAction(SceneActions(IdOf(hoveredHotspot)), Store,
                                 verb, Undefined)
          IN  /\ SetStore(r.store)
              /\ ret' = r.ret
              /\ observed' = r.seen
              /\ executed' = r.ran
  /\ UNCHANGED <<localStorage, actions, snapshot, worldVars>>

\* A scene's manager before registerAll, the generator switched off.
InitRegistry ==
  /\ InitStore
  /\ actions = << >>
  /\ call = [op |-> "init", args |-> << >>]
  /\ ret = Undefined
  /\ pre = EmptyStore
  /\ observed = << >>
  /\ executed = << >>
  /\ snapshot = [s \in Slots |-> NoSnapshot]
  /\ hoveredHotspot = Null
  /\ hotspotEnabled = << >>
  /\ onHotspotHover = 0
  /\ onHotspotClick = 0
  /\ pc = "idle"
  /\ frame = NoFrame
  /\ log = << >>
  /\ enabled = FALSE
  /\ cache = EmptyMap
  /\ InitScene

NextRegistry ==
  \/ \E id \in RegistryIds : Register(id)
  \/ \E id \in RegistryIds : Remove(id)
  \/ Clear
  \/ \E id \in RegistryIds, n \in 1..MaxHotspots : PointerEnter(HotspotObject(id, n))
  \/ \E id \in RegistryIds, n \in 1..MaxHotspots : PointerLeave(HotspotObject(id, n))
  \/ \E verb \in {"LOOK", "TAKE"} : InteractHovered(verb)

SpecRegistry == InitRegistry /\ [][NextRegistry]_vars

-----------------------------------------------------------------------------
(* InventoryPanel: the selection and the slots, kept up to date through the *)
(* panel's inventory-change subscription (callback 1 of the store).         *)

\* MAX_VISIBLE_SLOTS
MaxVisibleSlots == 6

\* The panel ("this") as one value.
Panel == [selectedItemId |-> selectedItemId, slots |-> slots]

\* InventoryPanel.refresh: slot i shows item i of the inventory, and a
\* selection whose item is gone is dropped.
refresh(panel, inv) ==
  [selectedItemId |->
     IF panel.selectedItemId # Null
          /\ ~(\E i \in 1..Len(inv) : inv[i].id = panel.selectedItemId)
     THEN Null
     ELSE panel.selectedItemId,
   slots |-> [i \in 1..(IF Len(inv) < MaxVisibleSlots THEN Len(inv)
                        ELSE MaxVisibleSlots) |-> inv[i].id]]

\* The panel after the notifications of a store call, from the k-th on: each
\* invocation of its callback is a refresh over the inventory of that moment.
RECURSIVE delivered(_, _, _)
delivered(panel, seen, k) ==
  IF k > Len(seen) THEN panel
  ELSE delivered(IF seen[k].kind = "inventory" /\ seen[k].cb = 1
                 THEN refresh(panel, seen[k].inventory)
                 ELSE panel,
                 seen, k + 1)

\* InventoryPanel.selectItem
selectItem(panel, itemId, inv) ==
  refresh([panel EXCEPT !.selectedItemId =
             IF panel.selectedItemId = itemId THEN Null ELSE itemId], inv)

\* InventoryPanel.clearSelection
clearSelection(panel, inv) == refresh([panel EXCEPT !.selectedItemId = Null], inv)

\* InventoryPanel.getSelectedItemId
getSelectedItemId == selectedItemId

SetPanel(panel) ==
  /\ selectedItemId' = panel.selectedItemId
  /\ slots' = panel.slots

\* What neither the store nor the panel touches.
besidePanel == <<localStorage, actions, snapshot, hoveredHotspot,
                 hotspotEnabled, onHotspotHover, onHotspotClick, pc, frame,
                 log, enabled, cache, calls, messageBox, hotspots, children>>

\* A mutation of the store with the panel subscribed.
PanelStoreCall(op, args, r) ==
  /\ StoreCall(op, args, r)
  /\ SetPanel(delivered(Panel, r.seen, 1))
  /\ UNCHANGED besidePanel

\* A call of the panel: args are the call's own and the selection before it.
PanelCall(op, args, panel) ==
  /\ call' = [op |-> op, args |-> args \o <<selectedItemId>>]
  /\ ret' = Undefined
  /\ pre' = Store
  /\ observed' = << >>
  /\ executed' = << >>
  /\ SetPanel(panel)
  /\ UNCHANGED <<storeVars, besidePanel>>

\* bg.on('pointerdown') of slot i: selectItem of the slot's item, if any.
SlotClick(i) ==
  IF i <= Len(slots)
  THEN PanelCall("slotClick", <<slots[i]>>, selectItem(Panel, slots[i], inventory))
  ELSE PanelCall("slotClick", <<Null>>, Panel)

SelectItem(itemId) ==
  PanelCall("selectItem", <<itemId>>, selectItem(Panel, itemId, inventory))

ClearSelection ==
  PanelCall("clearSelection", <<Null>>, clearSelection(Panel, inventory))

\* The item a combination of "a" and "b" gives.
Combined == InventoryItem("c", "C", {})

\* A scene's panel as constructed over a fresh store: subscribed, refreshed.
InitPanel ==
  /\ flags = EmptyMap
  /\ counters = EmptyMap
  /\ inventory = << >>
  /\ roomStates = EmptyMap
  /\ currentRoom = ""
  /\ onInventoryChange = 1
  /\ onFlagChange = 0
  /\ localStorage = [s \in Slots |-> NoData]
  /\ actions = << >>
  /\ InitCall

\* The player clicks slots; the game adds, removes and combines items, and
\* resets, saves and loads the store, from slots that may hold damaged data.
NextPanel ==
  \/ \E i \in 1..3 : SlotClick(i)
  \/ \E itemId \in {"a", "c"} : SelectItem(itemId)
  \/ ClearSelection
  \/ \E item \in PersistItems :
       PanelStoreCall("addItem", <<item>>, addItem(Store, item))
  \/ \E item \in PersistItems :
       PanelStoreCall("removeItem", <<item.id>>, removeItem(Store, item.id))
  \/ PanelStoreCall("combineItems", <<"a", "b", Combined>>,
                    combineItems(Store, "a", "b", Combined))
  \/ PanelStoreCall("reset", << >>, reset(Store))
  \/ \E slot \in Slots :
       PanelStoreCall("load", <<slot>>, load(Store, localStorage[slot]))
  \/ \E slot \in Slots : Save(slot)
  \/ \E slot \in Slots, text \in RawTexts : WriteRaw(slot, text)

SpecPanel == InitPanel /\ [][NextPanel]_vars

-----------------------------------------------------------------------------
(* MessageBox: show, the click on the box, and the two timers.  time is the *)
(* scene's clock (this.scene.time): the TimerEvents still pending, each     *)
(* with its callback and what the callback's closure holds.  The fields    *)
(* typewriterTimer and autoHideTimer name TimerEvents, pending or not;      *)
(* shown is history, the number of show calls so far.                       *)

MaxTimers == 4

MaxShows == 3

\* The n-th TimerEvent object.
TimerEvent(n) == "timer#" \o ToString(n)

\* A message of every length up to three characters.
Messages == {"", "hi", "hey"}

\* The autoHideDelay arguments: no auto-hide, a scene's 1500, the default.
AutoHideDelays == {0, 1500, 3000}

\* time.addEvent / time.delayedCall make a new object: one that is neither
\* pending nor among the objects the box still refers to.
newTimer(time, kept) ==
  LET free == { n \in 1..MaxTimers :
                  TimerEvent(n) \notin kept \cup { e.id : e \in time } }
  IN  TimerEvent(CHOOSE k \in free : \A j \in free : k <= j)

\* TimerEvent.destroy: the event leaves the clock and its callback never
\* runs again; Undefined (no timer yet) names no event.
destroy(time, timer) == { e \in time : e.id # timer }

\* MessageBox.show
show(box, message, autoHideDelay) ==
  LET cleared == destroy(destroy(box.time, box.typewriterTimer), box.autoHideTimer)
      timer == newTimer(cleared, {box.autoHideTimer})
  IN  [visible |-> TRUE, isTyping |-> TRUE, currentMessage |-> message,
       displayedText |-> "", typewriterTimer |-> timer,
       autoHideTimer |-> box.autoHideTimer, shown |-> box.shown,
       time |-> cleared \cup {[id |-> timer, callback |-> "typewriter",
                               charIndex |-> 0,
                               autoHideDelay |-> autoHideDelay]}]

\* MessageBox.skipTypewriter
skipTypewriter(box) ==
  [box EXCEPT !.time = destroy(@, box.typewriterTimer),
              !.displayedText = box.currentMessage,
              !.isTyping = FALSE]

\* MessageBox.hide
hide(box) ==
  [box EXCEPT !.time = destroy(destroy(@, box.typewriterTimer), box.autoHideTimer),
              !.visible = FALSE,
              !.isTyping = FALSE]

\* The callback of show's looping 30 ms event e: one more character, or, the
\* message being complete, the end of typing and the auto-hide scheduled.
typewriterCallback(box, e) ==
  IF e.charIndex < Len(box.currentMessage)
  THEN [box EXCEPT
          !.displayedText =
             @ \o SubSeq(box.currentMessage, e.charIndex + 1, e.charIndex + 1),
          !.time = (@ \ {e}) \cup {[e EXCEPT !.charIndex = @ + 1]}]
  ELSE LET stopped == [box EXCEPT !.isTyping = FALSE,
                                  !.time = destroy(@, box.typewriterTimer)]
           timer == newTimer(stopped.time, {stopped.typewriterTimer})
       IN  IF e.autoHideDelay > 0
           THEN [stopped EXCEPT
                   !.autoHideTimer = timer,
                   !.time = @ \cup {[id |-> timer, callback |-> "hide",
                                     charIndex |-> 0,
                                     autoHideDelay |-> e.autoHideDelay]}]
           ELSE stopped

\* The callback of the delayedCall event e, which fires once: hide().
autoHideCallback(box, e) == hide([box EXCEPT !.time = @ \ {e}])

\* background.on('pointerdown')
pointerdown(box) == IF box.isTyping THEN skipTypewriter(box) ELSE hide(box)

\* A call or an event of the box: nothing else changes.
BoxCall(op, args, box) ==
  /\ call' = [op |-> op, args |-> args]
  /\ ret' = Undefined
  /\ pre' = Store
  /\ observed' = << >>
  /\ executed' = << >>
  /\ messageBox' = box
  /\ UNCHANGED <<storeVars, localStorage, actions, snapshot, hoveredHotspot,
                 hotspotEnabled, onHotspotHover, onHotspotClick, pc, frame,
                 log, enabled, cache, calls, selectedItemId, slots, hotspots,
                 children>>

Show(message, autoHideDelay) ==
  /\ messageBox.shown < MaxShows
  /\ BoxCall("show", <<message, autoHideDelay>>,
             [show(messageBox, message, autoHideDelay) EXCEPT !.shown = @ + 1])

\* The clock fires a pending typewriter event.
TypewriterTick ==
  \E e \in messageBox.time :
    /\ e.callback = "typewriter"
    /\ BoxCall("typewriter", <<e.id>>, typewriterCallback(messageBox, e))

\* The clock fires a pending auto-hide event.
AutoHide ==
  \E e \in messageBox.time :
    /\ e.callback = "hide"
    /\ BoxCall("autoHide", <<e.id>>, autoHideCallback(messageBox, e))

\* The player clicks the box, which takes input only while it is visible.
BoxPointerDown ==
  /\ messageBox.visible
  /\ BoxCall("pointerdown", <<messageBox.isTyping>>, pointerdown(messageBox))

ShowAny == \E message \in Messages, autoHideDelay \in AutoHideDelays :
             Show(message, autoHideDelay)

\* A scene as constructed, its message box hidden.
InitMessageBox == InitRegistry

NextMessageBox ==
  \/ ShowAny
  \/ TypewriterTick
  \/ AutoHide
  \/ BoxPointerDown

SpecMessageBox == InitMessageBox /\ [][NextMessageBox]_vars

\* The clock runs: a pending event fires in the end.  Nothing obliges the
\* game to show a message or the player to click.
FairMessageBox ==
  SpecMessageBox /\ WF_vars(TypewriterTick) /\ WF_vars(AutoHide)

-----------------------------------------------------------------------------
(* BrazilForestScene: the pointer drives the scene.  Hotspots are hovered   *)
(* and left, a click on the game area goes through handleInteraction, a     *)
(* click on an inventory slot through the panel.  handleInteraction waits   *)
(* for interact, which waits for the response generator's network reply     *)
(* unless the text is cached.                                               *)

\* The hotspots of the puzzle among those registerAll registers (the two
\* companions, which answer every verb with a fixed sentence, are left out).
ForestHotspots == {"vines", "flower", "stump", "path-village"}

\* The replies of the edge function to a click's request: a failure, a text.
ForestReplies == {"notOk", "text"}

\* pointer.button: left, right.
Buttons == {0, 2}

\* handleInteraction, the verb of a click: LOOK for the right button;
\* otherwise, over a hotspot, the first of USE, TAKE, TALK among the
\* hotspot's available verbs, and USE when there is none or no hotspot.
handleInteractionVerb(button, hotspot, heldItemId, S) ==
  IF button = 2 THEN "LOOK"
  ELSE IF hotspot # Null
  THEN LET availableVerbs ==
             Range(getAvailableVerbs(SceneActions(hotspot), S,
                                     IF heldItemId = Null THEN Undefined
                                     ELSE heldItemId))
       IN  IF "USE" \in availableVerbs THEN "USE"
           ELSE IF "TAKE" \in availableVerbs THEN "TAKE"
           ELSE IF "TALK" \in availableVerbs THEN "TALK"
           ELSE "USE"
  ELSE "USE"

\* handleInteraction after `await interact`: the response is shown, and a
\* held item that is no longer owned is deselected.
afterInteract(response, heldItemId, S, panel, box) ==
  IF Truthy(response) /\ response # Null
  THEN [box |-> show(box, response, 3000),
        panel |-> IF heldItemId # Null /\ ~hasItem(S, heldItemId)
                  THEN clearSelection(panel, S.inventory)
                  ELSE panel]
  ELSE [box |-> box, panel |-> panel]

\* The path's onExecute fades out and starts BrazilVillageScene, whose
\* create makes the village the current room (the 500 ms of the fade are
\* passed over).
startScene(effect, S) ==
  IF effect = "goVillage" THEN setCurrentRoom(S, "brazil-village").store ELSE S

\* input.on('pointerdown'): handleInteraction(pointer), up to its end or to
\* the generator's fetch.  The forest's onExecute closures do not wait.
Click(button) ==
  LET hotspot == getHovered
      heldItemId == getSelectedItemId
      verb == handleInteractionVerb(button, hotspot, heldItemId, Store)
  IN  /\ currentRoom = "brazil-forest"
      /\ call' = [op |-> "click", args |-> <<button, hotspot, heldItemId, verb>>]
      /\ pre' = Store
      /\ IF hotspot = Null
         THEN \* a left click on empty space walks the hero there
              /\ ret' = Null
              /\ observed' = << >>
              /\ executed' = << >>
              /\ UNCHANGED <<storeVars, hotspotEnabled, calls, cache,
                             selectedItemId, slots, messageBox>>
         ELSE /\ \E c \in 1..MaxCalls : calls[c].pc = "idle"
              /\ LET r == executeAction(SceneActions(hotspot), Store, verb,
                                        IF heldItemId = Null THEN Undefined
                                        ELSE heldItemId)
                     index == IF r.ran = << >> THEN 0 ELSE r.ran[1]
                     effect == IF index = 0 THEN Undefined
                               ELSE SceneActions(hotspot)[index].onExecute
                     S == startScene(effect, r.store)
                     panel == delivered(Panel, r.seen, 1)
                     fr == [NoCall EXCEPT !.pc = "onExecute", !.verb = verb,
                                          !.heldItemId = heldItemId,
                                          !.hotspot = hotspot, !.index = index,
                                          !.baseResponse = r.ret]
                     k == interactGenerate(fr)
                     end == afterInteract(k.text, heldItemId, S, panel, messageBox)
                 IN  /\ SetStore(S)
                     /\ observed' = r.seen
                     /\ executed' = r.ran
                     /\ hotspotEnabled' =
                          [id \in DOMAIN hotspotEnabled |->
                             IF id \in Disables(effect) THEN FALSE
                             ELSE hotspotEnabled[id]]
                     /\ calls' = [calls EXCEPT ![FreeSlot] = k.frame]
                     /\ ret' = Outcome(k.outcome, k.text, r.ret)
                     /\ cache' = cache
                     /\ IF k.outcome = "return"
                        THEN /\ SetPanel(end.panel)
                             /\ messageBox' = end.box
                        ELSE /\ SetPanel(panel)
                             /\ messageBox' = messageBox
      /\ UNCHANGED <<localStorage, actions, snapshot, hoveredHotspot,
                     onHotspotHover, onHotspotClick, pc, frame, log, enabled,
                     hotspots, children>>

\* The network reply to the click waiting in slot c arrives: generate and
\* interact return, and handleInteraction goes on.
ClickReply(c, reply) ==
  /\ calls[c].pc = "fetch"
  /\ reply = "text" =>
       \/ calls[c].cacheKey \in DOMAIN cache
       \/ Cardinality(DOMAIN cache) < MaxCache
  /\ LET fr == calls[c]
         f == generateFinish(cache, fr.cacheKey, fr.baseResponse, reply)
         end == afterInteract(f.text, fr.heldItemId, Store, Panel, messageBox)
     IN  /\ cache' = f.cache
         /\ calls' = [calls EXCEPT ![c] = NoCall]
         /\ call' = [op |-> "reply", args |-> <<c, reply>>]
         /\ ret' = Outcome(f.kind, f.text, fr.baseResponse)
         /\ SetPanel(end.panel)
         /\ messageBox' = end.box
  /\ pre' = Store
  /\ observed' = << >>
  /\ executed' = << >>
  /\ UNCHANGED <<storeVars, localStorage, actions, snapshot, hoveredHotspot,
                 hotspotEnabled, onHotspotHover, onHotspotClick, pc, frame,
                 log, enabled, hotspots, children>>

\* A click on slot i of the panel.  The panel lies on top of the scene, so
\* the pointer has left whatever hotspot it was over.
ForestSlotClick(i) ==
  /\ currentRoom = "brazil-forest"
  /\ hoveredHotspot = Null
  /\ SlotClick(i)

\* The forest as create leaves it over a new game: the room entered, the
\* panel subscribed, the hotspots registered, the generator switched on.
InitForest ==
  /\ LET S == setCurrentRoom([EmptyStore EXCEPT !.onInventoryChange = 1],
                             "brazil-forest").store
     IN  /\ flags = S.flags
         /\ counters = S.counters
         /\ inventory = S.inventory
         /\ roomStates = S.roomStates
         /\ currentRoom = S.currentRoom
         /\ onInventoryChange = S.onInventoryChange
         /\ onFlagChange = S.onFlagChange
  /\ localStorage = [s \in Slots |-> NoData]
  /\ actions = << >>
  /\ call = [op |-> "init", args |-> << >>]
  /\ ret = Undefined
  /\ pre = EmptyStore
  /\ observed = << >>
  /\ executed = << >>
  /\ snapshot = [s \in Slots |-> NoSnapshot]
  /\ hoveredHotspot = Null
  /\ hotspotEnabled = [id \in ForestHotspots |-> TRUE]
  /\ onHotspotHover = 0
  /\ onHotspotClick = 0
  /\ pc = "idle"
  /\ frame = NoFrame
  /\ log = << >>
  /\ enabled = TRUE
  /\ cache = EmptyMap
  /\ calls = [c \in 1..MaxCalls |-> NoCall]
  /\ selectedItemId = Null
  /\ slots = << >>
  /\ messageBox = HiddenBox
  /\ hotspots = EmptyMap
  /\ children = {}

NextForest ==
  \/ \E id \in ForestHotspots : PointerOver(id)
  \/ \E id \in ForestHotspots : PointerOut(id)
  \/ \E button \in Buttons : Click(button)
  \/ \E c \in 1..MaxCalls, reply \in ForestReplies : ClickReply(c, reply)
  \/ \E i \in 1..2 : ForestSlotClick(i)

SpecForest == InitForest /\ [][NextForest]_vars

-----------------------------------------------------------------------------
(* Properties of the hotspot's action resolution.  call.args = <<verb,      *)
(* heldItemId>> for executeAction, getAction and hasAction; pre is the store *)
(* the enabled predicates were evaluated against.                           *)

\* The indexes of the actions for a verb whose enabled predicate is absent or
\* true in store S.
EnabledFor(verb, S) ==
  { i \in 1..Len(actions) : actions[i].verb = verb /\ isEnabled(actions[i], S) }

Least(indexes) == CHOOSE i \in indexes : \A j \in indexes : i <= j

\* C1: executeAction(verb, held) never invokes the onExecute of an action
\* whose requiresItem is set unless held equals that requiresItem.
C1_RequiredItemGuardsOnExecute ==
  call.op = "executeAction" =>
    \A k \in 1..Len(executed) :
      actions[executed[k]].requiresItem # Undefined
        => actions[executed[k]].requiresItem = call.args[2]

\* C1 witness: executeAction was called holding another item while an enabled
\* action for the verb requires an item and has an onExecute.
C1_Witness ==
  /\ call.op = "executeAction"
  /\ call.args[2] = "b"
  /\ \E i \in EnabledFor(call.args[1], pre) :
       actions[i].requiresItem = "a" /\ actions[i].onExecute # Undefined

\* The action the resolution is to select for (verb, held) in store S: the
\* first enabled item-specific action for the held item if there is one,
\* otherwise the first enabled action without requiresItem, otherwise none (0).
Selected(verb, held, S) ==
  LET specific == { i \in EnabledFor(verb, S) :
                      held # Undefined /\ actions[i].requiresItem = held }
      generic == { i \in EnabledFor(verb, S) : actions[i].requiresItem = Undefined }
  IN  IF specific # {} THEN Least(specific)
      ELSE IF generic # {} THEN Least(generic)
      ELSE 0

\* C2: getAction returns the first enabled item-specific action for the held
\* item when there is one, even behind an earlier enabled generic action,
\* otherwise the first enabled generic action, otherwise none; hasAction is
\* true exactly when an action is selected; executeAction answers with the
\* selected action's response and runs its onExecute, if it has one.
C2_ItemSpecificTakesPrecedence ==
  /\ call.op = "getAction" => ret = Selected(call.args[1], call.args[2], pre)
  /\ call.op = "hasAction" =>
       (ret <=> Selected(call.args[1], call.args[2], pre) # 0)
  /\ (call.op = "executeAction" /\ Selected(call.args[1], call.args[2], pre) # 0) =>
       LET sel == Selected(call.args[1], call.args[2], pre)
       IN  /\ ret = actions[sel].response
           /\ executed = IF actions[sel].onExecute # Undefined
                         THEN <<sel>> ELSE << >>

\* C2 witness: getAction selected the item-specific second action although the
\* first action is an enabled generic one for the same verb.
C2_Witness ==
  /\ call.op = "getAction"
  /\ ret = 2
  /\ actions[2].requiresItem = call.args[2]
  /\ 1 \in EnabledFor(call.args[1], pre)
  /\ actions[1].requiresItem = Undefined

\* C3: when an enabled action exists for the verb and every enabled action for
\* the verb requires an item other than the held one, executeAction returns
\* the response of the first enabled item-requiring action for the verb and
\* invokes no onExecute.
C3_MissingItemResponse ==
  (/\ call.op = "executeAction"
   /\ EnabledFor(call.args[1], pre) # {}
   /\ \A i \in EnabledFor(call.args[1], pre) :
        actions[i].requiresItem # Undefined
          /\ actions[i].requiresItem # call.args[2])
    => /\ ret = actions[Least(EnabledFor(call.args[1], pre))].response
       /\ executed = << >>
       /\ Store = pre

\* C3 witness: two enabled actions for the verb, both requiring an item not
\* held, the first with an onExecute that was not run.
C3_Witness ==
  /\ call.op = "executeAction"
  /\ call.args[2] = "b"
  /\ EnabledFor(call.args[1], pre) = {1, 2}
  /\ actions[1].requiresItem = "a" /\ actions[2].requiresItem = "a"
  /\ actions[1].onExecute # Undefined
  /\ ret = actions[1].response

\* Whether the hotspot has an action for verb requiring an item other than held.
RequiresOtherItem(verb, held) ==
  \E i \in 1..Len(actions) :
    /\ actions[i].verb = verb
    /\ actions[i].requiresItem # Undefined
    /\ actions[i].requiresItem # held

\* C4 as stated: on a hotspot with an action requiring item X on verb V,
\* executeAction(V, held) with held # X invokes no side effect and leaves the
\* store unchanged, whatever other actions the hotspot has for V.
C4_WrongItemNeverMutates ==
  (call.op = "executeAction" /\ RequiresOtherItem(call.args[1], call.args[2]))
    => (executed = << >> /\ Store = pre)

\* C4 amended: on a hotspot with an action requiring item X on verb V,
\* executeAction(V, held) with held # X does not invoke the onExecute of an
\* action requiring an item other than held; and when no enabled action for V
\* is generic or requires held, it invokes no side effect and leaves the store
\* unchanged.
C4_WrongItemAmended ==
  (call.op = "executeAction" /\ RequiresOtherItem(call.args[1], call.args[2]))
    => /\ \A k \in 1..Len(executed) :
            actions[executed[k]].requiresItem \in {Undefined, call.args[2]}
       /\ (\A i \in EnabledFor(call.args[1], pre) :
             actions[i].requiresItem \notin {Undefined, call.args[2]})
            => (executed = << >> /\ Store = pre)

\* C4 witness: no item held, the only action for the verb requires an item, is
\* enabled and has an onExecute; the store came out unchanged.
C4_Witness ==
  /\ call.op = "executeAction"
  /\ call.args[2] = Undefined
  /\ EnabledFor(call.args[1], pre) # {}
  /\ \A i \in EnabledFor(call.args[1], pre) :
       actions[i].requiresItem = "a" /\ actions[i].onExecute # Undefined
  /\ Store = pre

\* The canned rejection of each verb, written out.
ExpectedRejection(verb) ==
  IF verb = "USE" THEN "You can't use that." ELSE "You can't take that."

\* C5: executeAction returns "You can't <verb> that." exactly when no action
\* for the verb is enabled, and then runs no onExecute and leaves the store
\* unchanged; otherwise it returns the response of one of the hotspot's
\* actions for that verb.
C5_CannedRejection ==
  call.op = "executeAction" =>
    /\ (ret = ExpectedRejection(call.args[1]))
         <=> (EnabledFor(call.args[1], pre) = {})
    /\ EnabledFor(call.args[1], pre) = {}
         => (executed = << >> /\ Store = pre)
    /\ EnabledFor(call.args[1], pre) # {}
         => \E i \in 1..Len(actions) :
              actions[i].verb = call.args[1] /\ ret = actions[i].response

\* C5 witness: the hotspot has an action for the verb, but it is disabled, and
\* the call was answered with the canned rejection.
C5_Witness ==
  /\ call.op = "executeAction"
  /\ \E i \in 1..Len(actions) : actions[i].verb = call.args[1]
  /\ EnabledFor(call.args[1], pre) = {}
  /\ ret = "You can't use that."

\* The verbs that have an enabled action in store S.
EnabledVerbs(S) == { v \in Verbs : EnabledFor(v, S) # {} }

\* C6 (each call): getAvailableVerbs(held) returns exactly the verbs that have
\* an enabled action, whatever held and requiresItem are, each verb once, and
\* changes no state.
C6_EachCall ==
  call.op = "getAvailableVerbs" =>
    /\ Range(ret) = EnabledVerbs(pre)
    /\ Len(ret) = Cardinality(Range(ret))
    /\ Store = pre

\* C6 (repeated calls): a getAvailableVerbs call that follows another one,
\* with any held item, returns the same verbs.
C6_Repeated ==
  (call.op = "getAvailableVerbs" /\ call'.op = "getAvailableVerbs")
    => Range(ret') = Range(ret)

\* C6: getAvailableVerbs(held) returns exactly the set of verbs with an enabled
\* action, independent of held and requiresItem, each verb once; repeated
\* calls without a store mutation in between return the same set and change
\* no state.
C6_AvailableVerbs == []C6_EachCall /\ [][C6_Repeated]_vars

\* C6 witness: holding "b", the verb of two enabled actions, one of them
\* requiring "a", was listed once.
C6_Witness ==
  /\ call.op = "getAvailableVerbs"
  /\ call.args[1] = "b"
  /\ Len(actions) = 2
  /\ actions[1].verb = actions[2].verb
  /\ actions[1].requiresItem = "a"
  /\ EnabledFor(actions[1].verb, pre) = {1, 2}
  /\ ret = <<actions[1].verb>>

-----------------------------------------------------------------------------
(* Properties of the inventory operations *)

\* Whether a sequence of items holds an item with this id.
Holds(inv, itemId) == \E i \in 1..Len(inv) : inv[i].id = itemId

\* How many items of a sequence have this id.
CountId(inv, itemId) == Cardinality({ i \in 1..Len(inv) : inv[i].id = itemId })

UniqueIds(inv) == \A i, j \in 1..Len(inv) : inv[i].id = inv[j].id => i = j

\* C7: a failed inventory operation is a no-op.  addItem of an id already held
\* and removeItem of an id not held return false, leave the store as it was and
\* invoke no inventory-change callback; after any addItem(item) exactly one
\* item of the inventory has item's id.
C7_FailedInventoryOpsAreNoOps ==
  /\ (call.op = "addItem" /\ Holds(pre.inventory, call.args[1].id))
       => (ret = FALSE /\ Store = pre /\ observed = << >>)
  /\ (call.op = "removeItem" /\ ~Holds(pre.inventory, call.args[1]))
       => (ret = FALSE /\ Store = pre /\ observed = << >>)
  /\ call.op = "addItem" => CountId(inventory, call.args[1].id) = 1

\* C7 witness: addItem of an id already held (by a different item), with an
\* inventory-change callback registered that could have been invoked.
C7_Witness ==
  /\ call.op = "addItem"
  /\ Holds(pre.inventory, call.args[1].id)
  /\ call.args[1] \notin Range(pre.inventory)
  /\ onInventoryChange >= 1

\* C8: no two items of the inventory share an id, in every reachable state and
\* in every inventory a callback was shown during the last call.
C8_InventoryIdsUnique ==
  /\ UniqueIds(inventory)
  /\ \A k \in 1..Len(observed) : UniqueIds(observed[k].inventory)

\* C8 witness: a load of a saved slot restored two or more items over a
\* non-empty inventory and notified a callback.
C8_Witness ==
  /\ call.op = "load"
  /\ ret = TRUE
  /\ Len(inventory) >= 2
  /\ Len(pre.inventory) >= 1
  /\ Len(observed) >= 1

\* Whether combineItems(idA, idB, _) is to succeed on inventory inv: both ids
\* held, and one of the two items lists the other id in combinableWith.
Combinable(inv, idA, idB) ==
  \E i, j \in 1..Len(inv) :
    /\ inv[i].id = idA
    /\ inv[j].id = idB
    /\ (idB \in inv[i].combinableWith \/ idA \in inv[j].combinableWith)

\* C9: combineItems(A, B, R) returns true, removes A and B and leaves R in the
\* inventory exactly when A and B are both held and combinable; otherwise it
\* returns false and the inventory is unchanged.  (An item with the id of A or
\* B that remains in the inventory can only be R itself.)
C9_CombineLaw ==
  call.op = "combineItems" =>
    IF Combinable(pre.inventory, call.args[1], call.args[2])
    THEN /\ ret = TRUE
         /\ call.args[3] \in Range(inventory)
         /\ \A i \in 1..Len(inventory) :
              inventory[i].id \in {call.args[1], call.args[2]}
                => inventory[i] = call.args[3]
    ELSE ret = FALSE /\ inventory = pre.inventory

\* C10: a successful combineItems is atomic: every inventory a callback is
\* shown during the call is either the one before the call or the final one.
C10_CombineAtomic ==
  (call.op = "combineItems" /\ ret = TRUE) =>
    \A k \in 1..Len(observed) :
      observed[k].inventory \in {pre.inventory, inventory}

-----------------------------------------------------------------------------
(* Properties of persistence *)

\* Whether the content of a slot is missing, corrupt or of another shape.
Damaged(text) ==
  \/ ~text.present
  \/ text.json # "object"
  \/ text.absent # {}
  \/ text.numeric # {}

\* C11: load of a slot that is missing, or whose content is invalid JSON, JSON
\* null, or an object with one of flags/counters/roomStates missing or wrongly
\* typed, returns false and leaves flags, counters, inventory, room states and
\* current room exactly as they were before the call.
C11_LoadFailsSoft ==
  (call.op = "load" /\ Damaged(localStorage[call.args[1]]))
    => (ret = FALSE /\ Data(Store) = Data(pre))

-----------------------------------------------------------------------------
(* Properties of change notification *)

\* Whether the last call invoked each of n callbacks once, in registration
\* order, each seeing the store as the call left it.
NotifiedInOrder(n, kind) ==
  /\ Len(observed) = n
  /\ \A k \in 1..n :
       /\ observed[k].kind = kind
       /\ observed[k].cb = k
       /\ observed[k].inventory = inventory
       /\ observed[k].flags = flags

\* C13: a successful addItem, removeItem or load, and every reset, invokes
\* each registered inventory-change callback exactly once, in registration
\* order, within the call, each callback seeing the state after the mutation;
\* setFlag does so for the flag-change callbacks, handing them the flag's name
\* and new value; reset and load leave all callbacks registered.
C13_CallbacksOnceInOrder ==
  /\ (call.op \in {"addItem", "removeItem", "load"} /\ ret = TRUE)
       => NotifiedInOrder(pre.onInventoryChange, "inventory")
  /\ call.op = "reset" => NotifiedInOrder(pre.onInventoryChange, "inventory")
  /\ call.op = "setFlag" =>
       /\ NotifiedInOrder(pre.onFlagChange, "flag")
       /\ \A k \in 1..Len(observed) :
            /\ observed[k].name = call.args[1]
            /\ observed[k].value = call.args[2]
            /\ getFlag(Store, call.args[1]) = call.args[2]
  /\ call.op \in {"reset", "load"} =>
       /\ onInventoryChange = pre.onInventoryChange
       /\ onFlagChange = pre.onFlagChange

\* C13 witness: with two inventory-change callbacks and a flag-change callback
\* registered, a load that changed the inventory notified both.
C13_Witness ==
  /\ call.op = "load"
  /\ ret = TRUE
  /\ pre.onInventoryChange = 2
  /\ pre.onFlagChange >= 1
  /\ inventory # pre.inventory
  /\ Len(observed) = 2

-----------------------------------------------------------------------------
(* Properties of room visitation *)

\* Whether store S records the room as visited.
Visited(S, roomId) ==
  roomId \in DOMAIN S.roomStates /\ S.roomStates[roomId].hasVisited

\* The same, of the store after the step.
VisitedNext(roomId) ==
  roomId \in DOMAIN roomStates' /\ roomStates'[roomId].hasVisited

\* C14 (each call): when setCurrentRoom(r) returns r is current and visited;
\* hasVisitedRoom(r) answers whether r is recorded as visited and does not
\* change that; a scene's first-visit check, made before it makes its room
\* current, says "first visit" exactly when the room was not visited.
C14_EachCall ==
  /\ call.op \in {"setCurrentRoom", "create"} =>
       (currentRoom = call.args[1] /\ Visited(Store, call.args[1]))
  /\ call.op = "hasVisitedRoom" =>
       /\ ret = Visited(pre, call.args[1])
       /\ \A roomId \in RoomIds : Visited(Store, roomId) = Visited(pre, roomId)
  /\ call.op = "create" => ret = ~Visited(pre, call.args[1])

\* C14 (steps): a room becomes visited only by being made current (or by
\* load), and a visited room stays visited through every call other than
\* reset and load.
C14_Step ==
  \A roomId \in RoomIds :
    /\ (~Visited(Store, roomId) /\ VisitedNext(roomId)) =>
         \/ call'.op \in {"setCurrentRoom", "create"} /\ call'.args[1] = roomId
         \/ call'.op = "load"
    /\ (Visited(Store, roomId) /\ ~VisitedNext(roomId)) =>
         call'.op \in {"reset", "load"}

\* C14: hasVisitedRoom(r) is false for a room never made current, true from
\* the moment setCurrentRoom(r) returns, and stays true across setCurrentRoom
\* of other rooms and across queries until reset or load.
C14_HasVisited == []C14_EachCall /\ [][C14_Step]_vars

\* C14 witness: hasVisitedRoom("forest") answered true while another room,
\* made current later, is the current one.
C14_Witness ==
  /\ call.op = "hasVisitedRoom"
  /\ call.args[1] = "forest"
  /\ ret = TRUE
  /\ currentRoom = "village"
  /\ Visited(Store, "village")

-----------------------------------------------------------------------------
(* Properties of the HotspotManager *)

\* The events of the interact call of a given kind, as indexes into log.
Events(ev) == { i \in 1..Len(log) : log[i].ev = ev }

\* Whether the onExecute of the call threw or rejected.
OnExecuteFailed == \E i \in Events("reject") : log[i].text = "onExecute"

\* C15: a finished interact(verb, held) with nothing hovered at the call
\* returned none and did nothing else; one with hotspot h hovered at the call
\* ran h's executeAction, then notified every click subscriber with h and the
\* verb, in registration order, then called generate with h's name and the
\* base response, and returned generate's result, whatever happened to the
\* hover target meanwhile.  (Calls whose onExecute failed are C18's.)
C15_InteractOrder ==
  (pc = "done" /\ ~OnExecuteFailed) =>
    IF frame.hotspot = Null
    THEN log = <<Event("return", Null, frame.verb, Null, 0)>>
    ELSE LET h == frame.hotspot
             n == onHotspotClick
         IN  /\ Len(log) >= n + 3
             /\ log[1] = Event("execute", h, frame.verb, frame.baseResponse, 0)
             /\ \A k \in 1..n :
                  log[1 + k] = Event("click", h, frame.verb, Undefined, k)
             /\ log[n + 2] = Event("generate", h, frame.verb, frame.baseResponse, 0)
             /\ log[Len(log)].ev = "return"
             /\ log[Len(log)].text # Null

\* C16: a disabled hotspot is out of the routing: getHovered() does not return
\* it and interact does not run executeAction on it.
C16_DisabledNotRouted ==
  /\ getHovered # Null => hotspotEnabled[getHovered]
  /\ (pc # "idle" /\ frame.hotspot # Null) => frame.wasEnabled

\* C17 (steps): a pointer-enter of h makes h the hover target and tells every
\* hover subscriber; a pointer-leave of the hover target clears it and tells
\* every subscriber; a pointer-leave of any other hotspot changes nothing and
\* tells nobody; nothing else changes the hover target.
C17_Step ==
  /\ call'.op = "pointerover" =>
       /\ hoveredHotspot' = call'.args[1]
       /\ observed' = [k \in 1..onHotspotHover |->
                         [cb |-> k, hotspot |-> call'.args[1]]]
  /\ call'.op = "pointerout" =>
       IF hoveredHotspot = call'.args[1]
       THEN /\ hoveredHotspot' = Null
            /\ observed' = [k \in 1..onHotspotHover |-> [cb |-> k, hotspot |-> Null]]
       ELSE /\ hoveredHotspot' = hoveredHotspot
            /\ observed' = << >>
  /\ call'.op \notin {"pointerover", "pointerout"} =>
       hoveredHotspot' = hoveredHotspot

\* C17: the hover target is the hotspot of the latest pointer-enter unless
\* that hotspot's pointer-leave came after it, and then it is none; a
\* pointer-leave of another hotspot changes and notifies nothing.
C17_SingleHover == [][C17_Step]_vars

\* C17 witness: the pointer left a hotspot other than the hover target; the
\* target stayed and no subscriber was told.
C17_Witness ==
  /\ call.op = "pointerout"
  /\ hoveredHotspot # Null
  /\ hoveredHotspot # call.args[1]
  /\ onHotspotHover >= 1
  /\ observed = << >>

\* C18: every finished interact call (and the executeAction call in it) ended
\* by returning, a string or none, and never by throwing or rejecting.
C18_NeverRejects ==
  pc = "done" => (Events("reject") = {} /\ log[Len(log)].ev = "return")

-----------------------------------------------------------------------------
(* Properties of the response generator *)

\* The replies that are failures: the network call throws, the status is not
\* a success, the body does not parse, the body has no response text.
FailedReplies == {"throws", "notOk", "unparseable", "noText"}

\* C19: a generate call whose network reply is a failure does not reject and
\* returns exactly the baseResponse it was called with.
C19_GenerateFallsBack ==
  \A i \in Events("reply") :
    log[i].text \in FailedReplies =>
      /\ Events("generate") # {}
      /\ Len(log) = i + 1
      /\ log[i + 1] = Event("return", Null, frame.verb,
                            log[CHOOSE g \in Events("generate") : TRUE].text, 0)

\* C19 witness: the reply to a request did not parse and the call returned
\* the hotspot's own response.
C19_Witness ==
  /\ pc = "done"
  /\ \E i \in Events("reply") : log[i].text = "unparseable"
  /\ log[Len(log)] = Event("return", Null, frame.verb,
                        "You need something sharp to cut through these vines.", 0)

\* C20 (each call): a generate call made while the generator is disabled
\* sends no request and returns exactly baseResponse, so that interact
\* returns the response executeAction gave.
C20_EachCall ==
  (pc = "done" /\ Events("generate") # {} /\ ~frame.enabled) =>
    /\ Events("fetch") = {} /\ Events("reply") = {}
    /\ log[Len(log)] = Event("return", Null, frame.verb, log[1].text, 0)
    /\ log[1].ev = "execute"

\* C20 (steps): a step of an interact call whose generate was called while
\* disabled leaves the cache as it is.
C20_Step ==
  (call'.op \in {"interact", "resume"} /\ cache' # cache) => frame.enabled

\* C20: while disabled, generate returns exactly baseResponse without a
\* network request and without reading or changing the cache, also when a
\* generated text for the same triple is cached.
C20_DisabledIsIdentity == []C20_EachCall /\ [][C20_Step]_vars

\* C20 witness: the generator is disabled, the cache holds a generated text
\* for the call's triple, and the call returned the base response.
C20_Witness ==
  /\ pc = "done"
  /\ Events("generate") # {}
  /\ ~frame.enabled
  /\ frame.cacheKey \in DOMAIN cache
  /\ cache[frame.cacheKey] = GeneratedText
  /\ log[Len(log)].text = frame.baseResponse

-----------------------------------------------------------------------------
(* Properties of the stump and trader scenarios.  call.args = <<verb,       *)
(* heldItemId>> for executeAction.                                          *)

\* C21: on the stump, TAKE while the machete is not held adds the machete
\* and returns the take response; TAKE (with any held item) while the machete
\* is held returns the canned rejection and leaves the inventory unchanged;
\* LOOK answers with the "stuck in the top" text exactly while the machete is
\* not held and with the "already took" text otherwise, so the call right
\* after the successful TAKE already gets the second text.
C21_StumpScenario ==
  (actions = SceneActions("stump") /\ call.op = "executeAction") =>
    /\ (call.args[1] = "TAKE" /\ ~hasItem(pre, "machete")) =>
         /\ ret = "You pull the old machete from the stump! This could be useful."
         /\ inventory = Append(pre.inventory, Machete)
         /\ executeAction(actions, Store, "LOOK", call.args[2]).ret
              = "Just an old tree stump now. You already took the machete."
         /\ executeAction(actions, Store, "TAKE", call.args[2]).ret
              = "You can't take that."
    /\ (call.args[1] = "TAKE" /\ hasItem(pre, "machete")) =>
         /\ ret = "You can't take that."
         /\ inventory = pre.inventory
         /\ executed = << >>
    /\ call.args[1] = "LOOK" =>
         /\ ret = IF hasItem(pre, "machete")
                  THEN "Just an old tree stump now. You already took the machete."
                  ELSE "An old tree stump. There's a rusty machete stuck in the top!"
         /\ inventory = pre.inventory

\* C21 witness: a TAKE with the flower in hand, made while the machete taken
\* earlier is held, was rejected.
C21_Witness ==
  /\ actions = SceneActions("stump")
  /\ call = [op |-> "executeAction", args |-> <<"TAKE", "flower">>]
  /\ hasItem(pre, "machete")
  /\ hasItem(pre, "flower")
  /\ ret = "You can't take that."
  /\ inventory = pre.inventory

\* What a USE on the trader does, the trade handing out item `received`.
TradeOutcome(received) ==
  (actions = SceneActions("trader") /\ call.op = "executeAction"
     /\ call.args[1] = "USE") =>
    /\ (call.args[2] = "flower" /\ hasItem(pre, "flower")
          /\ ~getFlag(pre, "traded_flower")) =>
         /\ ~hasItem(Store, "flower")
         /\ hasItem(Store, received)
         /\ getFlag(Store, "traded_flower")
         /\ executed # << >>
    /\ getFlag(pre, "traded_flower") =>
         /\ ret = "\"I have nothing else to trade right now, but thank you for visiting!\""
         /\ inventory = pre.inventory
         /\ flags = pre.flags
         /\ executed = << >>

\* C22 as stated: the trade removes the flower, adds the rope and sets
\* traded_flower; every later USE returns the "nothing else to trade"
\* response and changes neither inventory nor flags.
C22_TradeGivesRope == TradeOutcome("rope")

\* The trade's side effect runs only while traded_flower is false, and
\* traded_flower, once true, stays true.
C22_Step ==
  actions = SceneActions("trader") =>
    /\ (call'.op = "executeAction" /\ executed' # << >>) =>
         ~getFlag(Store, "traded_flower")
    /\ getFlag(Store, "traded_flower") =>
         ("traded_flower" \in DOMAIN flags' /\ flags'["traded_flower"])

\* C22 (amended): the trade removes the flower, adds the bow and sets
\* traded_flower; every later USE, with any held item, returns the "nothing
\* else to trade" response and changes neither inventory nor flags, so the
\* trade's side effect is applied at most once over any sequence of calls.
C22_TradeOnce == []TradeOutcome("bow") /\ [][C22_Step]_vars

\* C22 witness: after the trade the flower was picked again and offered; the
\* trader answered that there is nothing else to trade.
C22_Witness ==
  /\ actions = SceneActions("trader")
  /\ call = [op |-> "executeAction", args |-> <<"USE", "flower">>]
  /\ getFlag(pre, "traded_flower")
  /\ hasItem(pre, "flower")
  /\ hasItem(pre, "bow")
  /\ ret = "\"I have nothing else to trade right now, but thank you for visiting!\""
  /\ inventory = pre.inventory

-----------------------------------------------------------------------------
(* Properties of interact calls in flight together.  call.args = <<c, verb, *)
(* heldItemId>> for interact, <<c>> for resume, <<c, reply>> for reply; log *)
(* lists the side effects applied so far.                                   *)

\* C23: interact calls are not serialized.  A call is taken while another is
\* suspended inside the crate's onExecute; every suspended call has passed the
\* enabled/requiresItem check, and when it resumes its side effect is applied
\* with no further check, whatever other calls have applied meanwhile -- so
\* two calls that passed the check before either effect landed both run the
\* one-shot action's side effect.
C23_NotSerialized ==
  /\ \A c \in 1..MaxCalls :
       calls[c].pc = "onExecute" =>
         /\ calls[c].hotspot = "crate"
         /\ calls[c].index = 1
         /\ calls[c].checkedAt <= Len(log)
  /\ call.op = "resume" =>
       /\ log # << >>
       /\ log[Len(log)].hotspot = "crate"
       /\ log[Len(log)].call = call.args[1]
       /\ executed = <<1>>

\* C23 witness: the crate's side effect has run twice, in two calls that both
\* passed the check before either effect had been applied; the second ran
\* when the machete was already there.
C23_Witness ==
  /\ Len(log) = 2
  /\ log[1].hotspot = "crate" /\ log[2].hotspot = "crate"
  /\ log[1].call # log[2].call
  /\ log[1].checkedAt = 0 /\ log[2].checkedAt = 0
  /\ call.op = "resume"
  /\ hasItem(pre, "machete")

\* How often the onExecute of a hotspot's action has been applied.
TimesApplied(hotspot, index) ==
  Cardinality({ i \in 1..Len(log) :
                  log[i].hotspot = hotspot /\ log[i].index = index })

\* The scenes' one-shot actions: stump TAKE, flower TAKE, the trader's trade.
OneShots == { <<"stump", 3>>, <<"flower", 2>>, <<"trader", 4>> }

\* C26: a call on a scene's hotspot is never suspended between the check and
\* the onExecute mutation (every side effect of theirs was applied in the
\* step that checked it), and under every interleaving of interact calls
\* each one-shot action's side effect is applied at most once.
C26_SyncOneShotOnce ==
  /\ \A c \in 1..MaxCalls :
       calls[c].pc = "onExecute" =>
         calls[c].hotspot \notin {"stump", "flower", "trader"}
  /\ \A i \in 1..Len(log) :
       log[i].hotspot \in {"stump", "flower", "trader"} =>
         log[i].checkedAt = i - 1
  /\ \A o \in OneShots : TimesApplied(o[1], o[2]) <= 1

\* C26 witness: two TAKE calls on the stump are in flight together; the
\* first took the machete, the second was rejected, and the machete was
\* handed out once.
C26_Witness ==
  /\ calls[1].pc = "fetch" /\ calls[2].pc = "fetch"
  /\ calls[1].hotspot = "stump" /\ calls[2].hotspot = "stump"
  /\ calls[1].verb = "TAKE" /\ calls[2].verb = "TAKE"
  /\ calls[1].baseResponse
       = "You pull the old machete from the stump! This could be useful."
  /\ calls[2].baseResponse = "You can't take that."
  /\ TimesApplied("stump", 3) = 1
  /\ Len(inventory) = 1

\* C25 (each call): while enabled, a generate call whose triple is cached
\* returns the cached text and sends no request.
C25_EachCall ==
  (call.op = "interact" /\ enabled /\ hoveredHotspot # Null) =>
    LET cacheKey == CacheKey(call.args[2], hotspotName(hoveredHotspot),
                             ret.baseResponse)
    IN  cacheKey \in DOMAIN cache =>
          (ret.outcome = "return" /\ ret.text = cache[cacheKey])

\* C25 (steps): the text cached for a triple stays the text cached for it.
C25_Step ==
  \A cacheKey \in DOMAIN cache :
    cacheKey \in DOMAIN cache' /\ cache'[cacheKey] = cache[cacheKey]

\* C25: while enabled, once a generate call has returned a cached response
\* for a triple, every later generate call for that triple returns the same
\* text without a network request, whatever other generate calls for the
\* triple were in flight at the time.
C25_SessionCache == []C25_EachCall /\ [][C25_Step]_vars

-----------------------------------------------------------------------------
(* Properties of callbacks that mutate the store *)

\* C24: a mutation made by a callback while it is being called starts no
\* second notification pass: every callback invocation of a call belongs to
\* the pass of that call itself.
C24_NoSecondPass ==
  \A i \in 1..Len(observed) : observed[i].depth = 1

-----------------------------------------------------------------------------
(* Properties of the registry *)

\* C27: getHovered() is none or a hotspot currently tracked by the manager
\* (one of getAll()), after any sequence of register, remove, clear and
\* pointer events; so interact never acts on a destroyed or untracked
\* hotspot.
C27_HoveredIsTracked ==
  /\ (getHovered = Null \/ getHovered \in getAll)
  /\ (call.op = "interact" /\ call.args[2] # Null) =>
       (call.args[2] \in getAll /\ call.args[2] \in children)

-----------------------------------------------------------------------------
(* Properties of the inventory panel.  call.args = <<itemId, selection      *)
(* before the call>> for the panel's calls.                                 *)

\* C28: after every panel operation and every store mutation,
\* getSelectedItemId() is null or the id of an item in the inventory; and a
\* click on the slot of the selected item deselects it.
C28_SelectionOwned ==
  /\ (getSelectedItemId = Null \/ hasItem(Store, getSelectedItemId))
  /\ (call.op = "slotClick" /\ call.args[1] # Null
        /\ call.args[1] = call.args[2]) => getSelectedItemId = Null

\* C30: after show(message, autoHideDelay) with autoHideDelay > 0 the box is
\* hidden in the end unless show is called again, a click that skips the
\* typewriter effect notwithstanding.
C30_EventuallyHidden ==
  \A n \in 1..MaxShows :
    (call.op = "show" /\ call.args[2] > 0 /\ messageBox.shown = n)
      ~> (~messageBox.visible \/ messageBox.shown # n)

\* C30, second half: the clock holds no event but those the box still names,
\* a typewriter event only while the box is typing and an auto-hide event only
\* once typing is over; so no event outlives the show that follows it.
C30_LaterShowCancels ==
  \A e \in messageBox.time :
    /\ e.callback = "typewriter" => (e.id = messageBox.typewriterTimer
                                       /\ messageBox.isTyping)
    /\ e.callback = "hide" => (e.id = messageBox.autoHideTimer
                                 /\ ~messageBox.isTyping
                                 /\ messageBox.visible)

\* C29: a left click on the stump while the machete is not held dispatches
\* TAKE (so that clicks alone bring the machete into the inventory); a right
\* click dispatches LOOK, a left click one of USE, TAKE and TALK.
C29_ClicksSolveForest ==
  call.op = "click" =>
    /\ call.args[1] = 2 => call.args[4] = "LOOK"
    /\ call.args[1] = 0 => call.args[4] \in {"USE", "TAKE", "TALK"}
    /\ (call.args[1] = 0 /\ call.args[2] = "stump" /\ ~hasItem(pre, "machete"))
         => call.args[4] = "TAKE"

\* C29, what the pointer can reach: the store of a forest driven by clicks
\* never holds the machete or the flower, and the vines are never cut.
C29_OutOfReach ==
  /\ ~hasItem(Store, "machete")
  /\ ~hasItem(Store, "flower")
  /\ ~getFlag(Store, "vines_cut")
  /\ currentRoom = "brazil-forest"

====
